---- MODULE Spec2Model ----
(***************************************************************************)
(* A model of the microchat.ai server: the session store, the Chat        *)
(* handler of the delta protocol, and the admission pipeline (API-key      *)
(* authentication, daily quota, token-bucket rate limit).                  *)
(*                                                                         *)
(* Every lock acquisition of the Go code is one atomic step; everything a  *)
(* handler does between two acquisitions touches no shared state and is    *)
(* folded into the step that follows it.                                   *)
(***************************************************************************)
EXTENDS Integers, Sequences, FiniteSets, TLC

VARIABLES
    \* ---- SessionStore (session_store.go) ----
    sessions,              \* map[string]*Session: id -> [Messages, LastActive]
    validSessions,         \* map[string]bool: ids registered by StartSession
    sessionOrder,          \* []string: LRU order, oldest first
    totalSessionsCreated,  \* int64 lifetime counter
    minted,                \* ids uuid.New() has returned so far
    now,                   \* the wall clock, in ticks
    \* ---- in-flight Chat calls (one record per handler goroutine) ----
    calls,
    \* ---- history of each session, kept for the statements below ----
    okCount,               \* successful Chat calls per session
    chatsStarted,          \* Chat requests received so far
    clean                  \* no Chat failed after its user append, none overlapped

storeVars == <<sessions, validSessions, sessionOrder, totalSessionsCreated>>
chatVars == <<minted, now, calls, okCount, clean, chatsStarted>>

\* Admission: the configured keys, the spending tracker's usage map, the rate
\* limiter's buckets, the local date, the requests in the interceptor chain,
\* and per key and day the number of requests that passed the quota check.
VARIABLES apiKeys, usage, limiters, day, reqs, passed, reqsStarted

admVars == <<apiKeys, usage, limiters, day, reqs, passed, reqsStarted>>

\* The store's capacity (SessionStore.maxSessions), what the last read of the
\* store returned, the number of direct store operations so far; the rate
\* limiter's clock and the times at which it admitted a request.
VARIABLES maxSessions, lastRead, storeOps, rateClock, admitLog, reqIndex

\* One GenerateResponse call of the Gemini provider (its retry loop), and one
\* reply on its way through validateResponse and sanitizeForTerminal.
VARIABLES gen, san

\* The texts the upstream model answers with (the stand-in for the Gemini API).
VARIABLES upstreamReplies

\* The goroutines that append to one session at the same time (what each has
\* sent and the errors it got back), and the rate limiter's cleanup worker
\* with its stop channel and the time each key was last seen.
VARIABLES conc, sweeper

handlerAux ==
    <<maxSessions, lastRead, storeOps, rateClock, admitLog, reqIndex, upstreamReplies,
      conc, sweeper>>
auxVars ==
    <<maxSessions, lastRead, storeOps, rateClock, admitLog, reqIndex, gen, san,
      upstreamReplies, conc, sweeper>>

\* ------------------------------------------------------------------
\* Configuration and bounds
\* ------------------------------------------------------------------
\* NewSessionStore(idleTimeout, maxSessions, maxMessagesPerSession,
\* maxSessionSizeBytes): the store's configuration, here a small one.
IdleTimeout == 0
MaxSessions == 1
MaxMessagesPerSession == 4
MaxSessionSizeBytes == 130

\* validateMessage's 10 KiB and validateResponse's cap, scaled down.
MaxMessageSize == 3
MaxResponseSize == 30

\* The clock stops at MaxTime; at most MaxChats Chat requests arrive.
MaxTime == 1
MaxChats == 3

\* The UUIDs the server mints, in the order it mints them, and one well-formed
\* UUID it never mints (a client's own).
MintOrder == <<"s1", "s2">>
SIDs == {MintOrder[i] : i \in 1..Len(MintOrder)}
ForgedId == "s0"
UUIDs == SIDs \cup {ForgedId}
Calls == {"c1", "c2"}

\* Strings are sequences of code points.
EchoPrefix == <<69, 99, 104, 111, 58, 32>>
EchoNoMessage ==
    <<69, 99, 104, 111, 58, 32, 78, 111, 32, 109, 101, 115, 115, 97, 103, 101,
      32, 116, 111, 32, 101, 99, 104, 111>>
EchoNoUser ==
    <<69, 99, 104, 111, 58, 32, 78, 111, 32, 117, 115, 101, 114, 32, 109, 101,
      115, 115, 97, 103, 101, 32, 102, 111, 117, 110, 100>>

UserTexts == {<<104>>, <<104, 105>>}
BigMessage == [i \in 1..(MaxMessageSize + 1) |-> 120]
ReqMessages == UserTexts \cup {<<>>, BigMessage}
ReqSessionIds == UUIDs \cup {"", "not-a-uuid"}
\* ChatRequest.MessageIndex: absent, the count after one exchange, far off.
MessageIndexes == {0, 2, 10}
Models == {"ECHO", "GEMINI_2_5_FLASH_LITE"}

\* What the upstream model can answer with: plain text, text carrying an ANSI
\* escape sequence and a NUL, and a text over the response cap.
BigReply == [i \in 1..(MaxResponseSize + 1) |-> 120]
CapReply == [i \in 1..MaxResponseSize |-> 120]
RawReplies == {<<97, 27, 91, 109, 98, 0>>, BigReply}
LLMErrors == {"Canceled", "DeadlineExceeded", "Unavailable"}

\* ------------------------------------------------------------------
\* Strings
\* ------------------------------------------------------------------
\* len(s) of a Go string holding these code points (UTF-8 bytes).
RuneLen(r) == IF r < 128 THEN 1 ELSE IF r < 2048 THEN 2 ELSE 3

RECURSIVE ByteLen(_)
ByteLen(s) == IF s = <<>> THEN 0 ELSE RuneLen(Head(s)) + ByteLen(Tail(s))

RoleString(role) ==
    CASE role = "User" -> <<117, 115, 101, 114>>
      [] role = "Assistant" -> <<97, 115, 115, 105, 115, 116, 97, 110, 116>>
      [] role = "System" -> <<115, 121, 115, 116, 101, 109>>
      [] OTHER -> <<117, 110, 107, 110, 111, 119, 110>>

IsDigitOrSemi(r) == (r >= 48 /\ r <= 57) \/ r = 59
IsLetter(r) == (r >= 65 /\ r <= 90) \/ (r >= 97 /\ r <= 122)

\* The end of the longest run of [0-9;] starting at position i.
RECURSIVE ParamEnd(_, _)
ParamEnd(s, i) ==
    IF i <= Len(s) /\ IsDigitOrSemi(s[i]) THEN ParamEnd(s, i + 1) ELSE i

\* regexp `\x1b\[[0-9;]*[a-zA-Z]`, ReplaceAllString(text, ""): leftmost
\* matches, left to right, none overlapping.
RECURSIVE StripAnsi(_, _)
StripAnsi(s, i) ==
    IF i > Len(s) THEN <<>>
    ELSE IF s[i] = 27 /\ i + 1 <= Len(s) /\ s[i + 1] = 91
         THEN LET j == ParamEnd(s, i + 2)
              IN  IF j <= Len(s) /\ IsLetter(s[j])
                  THEN StripAnsi(s, j + 1)
                  ELSE <<s[i]>> \o StripAnsi(s, i + 1)
         ELSE <<s[i]>> \o StripAnsi(s, i + 1)

KeepRuneOrEsc(r) == r >= 27 \/ r = 10 \/ r = 9 \/ r = 13
KeepRune(r) == r >= 32 \/ r = 10 \/ r = 9 \/ r = 13

RECURSIVE StripControl(_)
StripControl(s) ==
    IF s = <<>> THEN <<>>
    ELSE (IF KeepRune(Head(s)) THEN <<Head(s)>> ELSE <<>>) \o StripControl(Tail(s))

sanitizeForTerminal(text) == StripControl(StripAnsi(text, 1))

\* validateResponse: nil or ResourceExhausted.
validateResponseBelowCap(response) ==
    IF ByteLen(response) >= MaxResponseSize THEN "ResourceExhausted" ELSE "nil"

validateResponse(response) ==
    IF ByteLen(response) > MaxResponseSize THEN "ResourceExhausted" ELSE "nil"

validateSessionID(sessionID) ==
    IF sessionID = "" THEN "InvalidArgument"
    ELSE IF sessionID \notin UUIDs THEN "InvalidArgument"
    ELSE "nil"

validateMessage(message) ==
    IF message = <<>> THEN "InvalidArgument"
    ELSE IF ByteLen(message) > MaxMessageSize THEN "InvalidArgument"
    ELSE "nil"

\* ------------------------------------------------------------------
\* SessionStore
\* ------------------------------------------------------------------
Store ==
    [sessions |-> sessions, validSessions |-> validSessions,
     sessionOrder |-> sessionOrder]

MapDelete(m, k) == [x \in (DOMAIN m) \ {k} |-> m[x]]
MapPut(m, k, v) == [x \in (DOMAIN m) \cup {k} |-> IF x = k THEN v ELSE m[x]]

RECURSIVE SeqRemoveFirst(_, _)
SeqRemoveFirst(s, x) ==
    IF s = <<>> THEN <<>>
    ELSE IF Head(s) = x THEN Tail(s)
    ELSE <<Head(s)>> \o SeqRemoveFirst(Tail(s), x)

IsValidSessionByFormat(st, sessionID) == sessionID \in UUIDs
IsValidSession(st, sessionID) == sessionID \in st.validSessions

MessageSize(msg) == ByteLen(msg.Text) + Len(RoleString(msg.Role)) + 24

RECURSIVE SumSizes(_)
SumSizes(msgs) ==
    IF msgs = <<>> THEN 0 ELSE MessageSize(Head(msgs)) + SumSizes(Tail(msgs))

getSessionSize(session) == SumSizes(session.Messages)

evictOldestKeepsValid(st) ==
    IF Len(st.sessionOrder) = 0 THEN st
    ELSE [sessions |-> MapDelete(st.sessions, Head(st.sessionOrder)),
          validSessions |-> st.validSessions,
          sessionOrder |-> Tail(st.sessionOrder)]

evictOldestSession(st) ==
    IF Len(st.sessionOrder) = 0 THEN st
    ELSE LET oldestSessionID == Head(st.sessionOrder)
         IN  [sessions |-> MapDelete(st.sessions, oldestSessionID),
              validSessions |-> st.validSessions \ {oldestSessionID},
              sessionOrder |-> Tail(st.sessionOrder)]

\* for len(s.sessions) >= s.maxSessions { s.evictOldestSession() }
\* (with an empty order and a full map the Go loop would spin; the order
\* lists every stored session, so that state is not reachable)
EvictNone(st) == st

RECURSIVE EvictLoop(_)
EvictLoop(st) ==
    IF Cardinality(DOMAIN st.sessions) >= maxSessions /\ Len(st.sessionOrder) > 0
    THEN EvictLoop(evictOldestSession(st))
    ELSE st

updateSessionOrderNever(order, sessionID) ==
    IF \E i \in 1..Len(order) : order[i] = sessionID THEN order
    ELSE Append(order, sessionID)

updateSessionOrder(order, sessionID) ==
    Append(SeqRemoveFirst(order, sessionID), sessionID)

\* session.Messages = append(session.Messages, message)
AppendAtFront(messages, message) == <<message>> \o messages
AppendToMessages(messages, message) == Append(messages, message)

\* A limit error returns before the append: the message is not stored.
StoredDespiteError(st1, sessionID, message) ==
    [st1 EXCEPT !.sessions[sessionID].Messages = Append(@, message)]
RejectedAppend(st1, sessionID, message) == st1

\* The result of s.AppendMessage(sessionID, role, text) at time t on store st:
\* the error ("nil" for none) and the store it leaves.
AppendMessage(st, t, sessionID, role, text) ==
    IF ~IsValidSession(st, sessionID) THEN [err |-> "invalid session ID", st |-> st]
    ELSE
      LET st1 == IF sessionID \notin DOMAIN st.sessions
                 THEN LET e == EvictLoop(st)
                      IN  [e EXCEPT
                             !.sessions = MapPut(e.sessions, sessionID,
                                            [Messages |-> <<>>, LastActive |-> t]),
                             !.sessionOrder = Append(e.sessionOrder, sessionID)]
                 ELSE st
          session == st1.sessions[sessionID]
          message == [Role |-> role, Text |-> text, Timestamp |-> t]
      IN  IF Len(session.Messages) >= MaxMessagesPerSession
          THEN [err |-> "session message limit exceeded",
                st |-> RejectedAppend(st1, sessionID, message)]
          ELSE IF getSessionSize(session) + ByteLen(text) + Len(RoleString(role)) + 24
                    > MaxSessionSizeBytes
          THEN [err |-> "session size limit exceeded",
                st |-> RejectedAppend(st1, sessionID, message)]
          ELSE [err |-> "nil",
                st |-> [st1 EXCEPT
                          !.sessions[sessionID] =
                              [Messages |-> AppendToMessages(session.Messages, message),
                               LastActive |-> t],
                          !.sessionOrder = updateSessionOrder(st1.sessionOrder, sessionID)]]

GetMessages(st, sessionID) ==
    IF sessionID \in DOMAIN st.sessions THEN st.sessions[sessionID].Messages ELSE <<>>

\* Message.FormattedString: "role [HH:MM:SS UTC]: text", kept as its three parts.
FormattedString(m) == <<RoleString(m.Role), m.Timestamp, m.Text>>

GetFormattedMessages(st, sessionID) ==
    LET messages == GetMessages(st, sessionID)
    IN  [i \in 1..Len(messages) |-> FormattedString(messages[i])]

GetMessagesAsLLMFormat(st, sessionID) ==
    LET messages == GetMessages(st, sessionID)
    IN  [i \in 1..Len(messages) |->
            [Role |-> RoleString(messages[i].Role), Text |-> messages[i].Text]]

SeqRemoveNone(s, X) == s

RECURSIVE SeqRemoveAll(_, _)
SeqRemoveAll(s, X) ==
    IF s = <<>> THEN <<>>
    ELSE (IF Head(s) \in X THEN <<>> ELSE <<Head(s)>>) \o SeqRemoveAll(Tail(s), X)

\* The store after CleanupIdleSessions() at time t.
CleanupIdleAtCutoff(st, t) ==
    LET cutoff == t - IdleTimeout
        toDelete == {id \in DOMAIN st.sessions : st.sessions[id].LastActive <= cutoff}
    IN  [sessions |-> [id \in (DOMAIN st.sessions) \ toDelete |-> st.sessions[id]],
         validSessions |-> st.validSessions \ toDelete,
         sessionOrder |-> SeqRemoveAll(st.sessionOrder, toDelete)]

CleanupIdle(st, t) ==
    LET cutoff == t - IdleTimeout
        toDelete == {id \in DOMAIN st.sessions : st.sessions[id].LastActive < cutoff}
    IN  [sessions |-> [id \in (DOMAIN st.sessions) \ toDelete |-> st.sessions[id]],
         validSessions |-> st.validSessions \ toDelete,
         sessionOrder |-> SeqRemoveAll(st.sessionOrder, toDelete)]

\* ------------------------------------------------------------------
\* LLM providers
\* ------------------------------------------------------------------
\* llm.NewProvider(model): which provider the factory hands out, given APP_ENV
\* and whether NewGeminiProvider succeeds.
NewProviderAsRequested(model, isDev, geminiOK) ==
    CASE model = "GEMINI_2_5_FLASH_LITE" -> IF geminiOK THEN "Gemini" ELSE "Echo"
      [] model = "ECHO" -> "Echo"
      [] OTHER ->
            IF isDev THEN "Echo" ELSE (IF geminiOK THEN "Gemini" ELSE "Echo")

NewProvider(model, isDev, geminiOK) ==
    CASE model = "GEMINI_2_5_FLASH_LITE" -> IF geminiOK THEN "Gemini" ELSE "Echo"
      [] model = "ECHO" ->
            IF ~isDev THEN (IF geminiOK THEN "Gemini" ELSE "Echo") ELSE "Echo"
      [] OTHER ->
            IF isDev THEN "Echo" ELSE (IF geminiOK THEN "Gemini" ELSE "Echo")

RECURSIVE LastUserText(_)
LastUserText(messages) ==
    IF messages = <<>> THEN <<>>
    ELSE IF messages[Len(messages)].Role = RoleString("User")
         THEN messages[Len(messages)].Text
         ELSE LastUserText(SubSeq(messages, 1, Len(messages) - 1))

EchoGenerateResponse(messages) ==
    IF Len(messages) = 0 THEN [text |-> EchoNoMessage, err |-> "nil"]
    ELSE IF LastUserText(messages) = <<>> THEN [text |-> EchoNoUser, err |-> "nil"]
    ELSE [text |-> EchoPrefix \o LastUserText(messages), err |-> "nil"]

\* The results GeminiProvider.GenerateResponse can return: a non-empty text, or
\* one of the gRPC statuses its retry loop ends with.
GeminiOutcomes(messages) ==
    IF Len(messages) = 0 THEN {[text |-> <<>>, err |-> "InvalidArgument"]}
    ELSE {[text |-> r, err |-> "nil"] : r \in upstreamReplies}
         \cup {[text |-> <<>>, err |-> e] : e \in LLMErrors}

ProviderOutcomes(provider, messages) ==
    IF provider = "Echo" THEN {EchoGenerateResponse(messages)}
    ELSE GeminiOutcomes(messages)

\* ------------------------------------------------------------------
\* GeminiProvider.GenerateResponse: the retry loop
\* ------------------------------------------------------------------
\* What one GenerateContent call can come back with: a text (possibly empty),
\* or an error; timedOut says the try's 30-second context had expired. An
\* upstream error is a plain Go error or one that carries a gRPC status; once
\* the caller's context is cancelled the client can also report that.
UpstreamTexts == {<<111, 107>>, <<104, 105>>}
PlainErrors == {"transient", "context canceled", "empty"}
StatusErrors == {"DeadlineExceeded", "Canceled", "PermissionDenied", "InvalidArgument"}
TryResults(ctxCancelled) ==
    {[text |-> t, err |-> "nil", timedOut |-> FALSE] : t \in UpstreamTexts \cup {<<>>}}
    \cup {[text |-> <<>>, err |-> "context deadline exceeded", timedOut |-> TRUE]}
    \cup {[text |-> <<>>, err |-> e, timedOut |-> FALSE] :
             e \in {"transient", "PermissionDenied"}
                   \cup (IF ctxCancelled THEN {"context canceled"} ELSE {})}

\* pc: idle, loop (at the for statement), sleep (in time.Sleep), inflight (in
\* GenerateContent), done. issued[i]: whether the caller's context was already
\* cancelled when try i was issued; outcomes[i]: what try i came back with.
\* expired: the caller's deadline has passed (ctx.Err() is DeadlineExceeded;
\* a context is either cancelled or expired, whichever came first); late[i]:
\* whether it had passed when try i was issued; sleptLate: a backoff sleep was
\* begun after it had passed.
IdleGen ==
    [pc |-> "idle", attempt |-> 0, lastErr |-> "nil", cancelled |-> FALSE,
     hasMessages |-> FALSE, issued |-> <<>>, outcomes |-> <<>>,
     text |-> <<>>, err |-> "nil",
     expired |-> FALSE, late |-> <<>>, sleptLate |-> FALSE]

\* A try issued on an expired context can only time out: timeoutCtx is derived
\* from ctx and is past its deadline from the start.
TryResultsOf(g) ==
    IF g.expired /\ g.late # <<>> /\ g.late[Len(g.late)]
    THEN {[text |-> <<>>, err |-> "context deadline exceeded", timedOut |-> TRUE]}
    ELSE TryResults(g.cancelled)

\* for attempt := 0; attempt < 3; attempt++
MoreAttemptsOffByOne(attempt) == attempt <= 3
MoreAttempts(attempt) == attempt < 3

\* if grpcStatus, ok := status.FromError(lastErr); ok { return grpcStatus.Err() }
\* return status.Error(codes.Unavailable, ...)
FinalStatus(lastErr) ==
    IF lastErr \in StatusErrors THEN lastErr ELSE "Unavailable"

GenReturns(g, text, err) == [g EXCEPT !.pc = "done", !.text = text, !.err = err]
GenContinues(g, lastErr) ==
    [g EXCEPT !.pc = "loop", !.attempt = @ + 1, !.lastErr = lastErr]

\* The loop body after GenerateContent returned res.
AfterTry(g, res) ==
    IF res.err # "nil"
    THEN IF res.timedOut THEN GenContinues(g, "DeadlineExceeded")
         ELSE IF g.cancelled THEN GenReturns(g, <<>>, "Canceled")
         ELSE GenContinues(g, res.err)
    ELSE IF res.text = <<>> THEN GenContinues(g, "empty")
    ELSE GenReturns(g, res.text, "nil")

\* timeoutCtx, cancel := context.WithTimeout(ctx, 30s); GenerateContent(...)
GenIssue(g) ==
    [g EXCEPT !.pc = "inflight", !.issued = Append(@, g.cancelled),
              !.late = Append(@, g.expired)]

\* if len(parts) == 0 { return InvalidArgument }
GenBegin ==
    /\ gen.pc = "idle"
    /\ \E hasMessages \in BOOLEAN, cancelled \in BOOLEAN, expired \in BOOLEAN :
          LET g == [IdleGen EXCEPT !.hasMessages = hasMessages,
                                   !.cancelled = cancelled,
                                   !.expired = expired /\ ~cancelled]
          IN  gen' = IF ~hasMessages
                     THEN GenReturns(g, <<>>, "InvalidArgument")
                     ELSE [g EXCEPT !.pc = "loop"]
    /\ UNCHANGED <<storeVars, chatVars, admVars, handlerAux, san>>

\* The caller cancels its context.
GenCancel ==
    /\ gen.pc \in {"loop", "sleep", "inflight"}
    /\ ~gen.cancelled /\ ~gen.expired
    /\ gen' = [gen EXCEPT !.cancelled = TRUE]
    /\ UNCHANGED <<storeVars, chatVars, admVars, handlerAux, san>>

\* The caller's deadline passes.
GenDeadline ==
    /\ gen.pc \in {"loop", "sleep", "inflight"}
    /\ ~gen.cancelled /\ ~gen.expired
    /\ gen' = [gen EXCEPT !.expired = TRUE]
    /\ UNCHANGED <<storeVars, chatVars, admVars, handlerAux, san>>

\* The head of the loop: the bound, the ctx.Err() check, then the sleep before
\* a retry or, on the first attempt, the call itself.
GenLoop ==
    /\ gen.pc = "loop"
    /\ gen' = IF ~MoreAttempts(gen.attempt)
              THEN GenReturns(gen, <<>>, FinalStatus(gen.lastErr))
              ELSE IF gen.cancelled THEN GenReturns(gen, <<>>, "Canceled")
              ELSE IF gen.attempt > 0
              THEN [gen EXCEPT !.pc = "sleep", !.sleptLate = @ \/ gen.expired]
              ELSE GenIssue(gen)
    /\ UNCHANGED <<storeVars, chatVars, admVars, handlerAux, san>>

\* time.Sleep(backoffDurations[attempt-1]) returns and the try is issued.
GenWake ==
    /\ gen.pc = "sleep"
    /\ gen' = GenIssue(gen)
    /\ UNCHANGED <<storeVars, chatVars, admVars, handlerAux, san>>

GenTryEnd ==
    /\ gen.pc = "inflight"
    /\ \E res \in TryResultsOf(gen) :
          gen' = AfterTry([gen EXCEPT !.outcomes = Append(@, res)], res)
    /\ UNCHANGED <<storeVars, chatVars, admVars, handlerAux, san>>

\* The caller has the result; the next call can start.
GenReturn ==
    /\ gen.pc = "done"
    /\ gen' = IdleGen
    /\ UNCHANGED <<storeVars, chatVars, admVars, handlerAux, san>>

NextGen ==
    GenBegin \/ GenCancel \/ GenDeadline \/ GenLoop \/ GenWake \/ GenTryEnd \/ GenReturn

\* ------------------------------------------------------------------
\* One reply from the factory's provider through validateResponse and
\* sanitizeForTerminal
\* ------------------------------------------------------------------
\* The models a request can name: the two of the enum and a value outside it.
FactoryModels == Models \cup {"UNKNOWN"}

\* The runes replies are made of here: ESC, '[', '1', 'm', BEL, DEL and the
\* one-rune CSI (U+009B); every text of up to MaxReplyLen of them, two longer
\* ones in which removing an escape sequence joins what is around it into a
\* new one, and a text of exactly the response cap and one a byte over it.
MaxReplyLen == 4
ReplyAlphabet == {27, 91, 49, 109, 7, 127, 155}
JoinTexts == {<<27, 27, 91, 109, 91, 109>>, <<27, 91, 27, 91, 109, 109>>}
ReplyTexts ==
    UNION {[1..n -> ReplyAlphabet] : n \in 0..MaxReplyLen}
        \cup JoinTexts \cup {CapReply, BigReply}

IdleSan ==
    [pc |-> "idle", model |-> "", isDev |-> FALSE, geminiOK |-> FALSE,
     provider |-> "", reply |-> <<>>, code |-> "", out |-> <<>>, again |-> <<>>]

\* provider := app.getProvider(req.Model)
GetProvider ==
    /\ san.pc = "idle"
    /\ \E model \in FactoryModels, isDev \in BOOLEAN, geminiOK \in BOOLEAN :
          san' = [IdleSan EXCEPT !.pc = "provider", !.model = model,
                                 !.isDev = isDev, !.geminiOK = geminiOK,
                                 !.provider = NewProvider(model, isDev, geminiOK)]
    /\ UNCHANGED <<storeVars, chatVars, admVars, handlerAux, gen>>

\* reply, err := provider.GenerateResponse(...); validateResponse(reply);
\* reply = sanitizeForTerminal(reply)
ReplyArrives ==
    /\ san.pc = "provider"
    /\ \E reply \in ReplyTexts :
          san' = IF validateResponse(reply) # "nil"
                 THEN [san EXCEPT !.pc = "failed", !.reply = reply,
                                  !.code = validateResponse(reply)]
                 ELSE [san EXCEPT !.pc = "sanitized", !.reply = reply,
                                  !.code = "OK",
                                  !.out = sanitizeForTerminal(reply)]
    /\ UNCHANGED <<storeVars, chatVars, admVars, handlerAux, gen>>

\* The client (or a later hop) runs the sanitiser over the reply it received.
SanitizeAgain ==
    /\ san.pc = "sanitized"
    /\ san' = [san EXCEPT !.pc = "again", !.again = sanitizeForTerminal(san.out)]
    /\ UNCHANGED <<storeVars, chatVars, admVars, handlerAux, gen>>

ReplyDone ==
    /\ san.pc \in {"failed", "again"}
    /\ san' = IdleSan
    /\ UNCHANGED <<storeVars, chatVars, admVars, handlerAux, gen>>

NextReply == GetProvider \/ ReplyArrives \/ SanitizeAgain \/ ReplyDone

\* ------------------------------------------------------------------
\* The Chat handler, StartSession and the janitor
\* ------------------------------------------------------------------
NoEvent == <<>>
IdleCall ==
    [pc |-> "idle", sessionId |-> "", message |-> <<>>,
     currentCount |-> 0, reply |-> <<>>,
     code |-> "", llmErr |-> "", messageCount |-> 0, trace |-> NoEvent,
     interf |-> "none", raw |-> <<>>]

\* The messages a step added, per session that is in the store after it; a
\* session whose old messages are not a prefix of the new ones is "rewritten".
AddedTo(old, new, id) ==
    LET o == GetMessages(old, id)
        n == GetMessages(new, id)
    IN  IF id \notin DOMAIN old.sessions THEN
            [i \in 1..Len(n) |-> [ev |-> "append", sid |-> id,
                                  role |-> n[i].Role, text |-> n[i].Text]]
        ELSE IF Len(n) >= Len(o) /\ SubSeq(n, 1, Len(o)) = o THEN
            [i \in 1..(Len(n) - Len(o)) |->
                [ev |-> "append", sid |-> id,
                 role |-> n[Len(o) + i].Role, text |-> n[Len(o) + i].Text]]
        ELSE <<[ev |-> "rewrite", sid |-> id, role |-> "", text |-> <<>>]>>

RECURSIVE AddedAll(_, _, _)
AddedAll(old, new, ids) ==
    IF ids = {} THEN <<>>
    ELSE LET id == CHOOSE x \in ids : TRUE
         IN  AddedTo(old, new, id) \o AddedAll(old, new, ids \ {id})

Added(old, new) == AddedAll(old, new, DOMAIN new.sessions)

GenerateEvent == [ev |-> "generate", sid |-> "", role |-> "", text |-> <<>>]

InFlight(d) == calls[d].pc \in {"counted", "userStored", "generated"}

\* A handler that has built its response returns it at once: the return touches
\* no shared state, so no other step is taken in between.
Returning == \E d \in Calls : calls[d].pc \in {"ok", "failed"}

\* Call c appended to session id: every other call on id that has read its
\* count and not yet returned has been overtaken.
MarkInterference(c, id, cs) ==
    [d \in Calls |->
        IF d # c /\ cs[d].sessionId = id /\ cs[d].pc \in {"userStored", "generated"}
        THEN [cs[d] EXCEPT !.interf = "late"]
        ELSE IF d # c /\ cs[d].sessionId = id /\ cs[d].pc = "counted"
                  /\ cs[d].interf = "none"
        THEN [cs[d] EXCEPT !.interf = "early"]
        ELSE cs[d]]

Overtakes(c, id) ==
    \E d \in Calls : d # c /\ calls[d].sessionId = id /\ InFlight(d)

\* if err := app.sessionStore.AppendMessage(...); err != nil { return ... }
AppendIgnored(res) == FALSE
AppendFailed(res) == res.err # "nil"

\* status.Errorf(codes.Internal, "LLM provider failed: %v", err)
LLMStatusPassedThrough(err) == err
LLMFailureCode(err) == "Internal"

\* newCount := currentCount + 2
NewCountPlusOne(currentCount) == currentCount + 1
NewCount(currentCount) == currentCount + 2

SetStore(st) ==
    /\ sessions' = st.sessions
    /\ validSessions' = st.validSessions
    /\ sessionOrder' = st.sessionOrder

\* StartSession: mint a fresh UUID and register it.
StartSession ==
    \E sessionID \in SIDs \ minted :
        /\ ~Returning
        /\ sessionID = MintOrder[Cardinality(minted) + 1]
        /\ minted' = minted \cup {sessionID}
        /\ validSessions' = validSessions \cup {sessionID}
        /\ totalSessionsCreated' = totalSessionsCreated + 1
        /\ UNCHANGED <<auxVars, admVars, chatsStarted, sessions, sessionOrder, now, calls, okCount, clean>>

\* Chat, up to and including IsValidSession. The request's model is read at
\* getProvider and is drawn there; its message_index only decides whether a
\* warning is logged. Two handlers run at a time: of two that overlap, c1 names
\* the one that started first.
ChatBegin(c) ==
    /\ calls[c].pc = "idle"
    /\ ~Returning
    /\ c = "c2" => calls["c1"].pc # "idle"
    /\ chatsStarted < MaxChats
    /\ chatsStarted' = chatsStarted + 1
    /\ \E sid \in ReqSessionIds \ (SIDs \ minted), msg \in ReqMessages :
        LET req == [IdleCall EXCEPT !.sessionId = sid, !.message = msg]
        IN  calls' = [calls EXCEPT ![c] =
                IF validateSessionID(sid) # "nil"
                THEN [req EXCEPT !.pc = "failed", !.code = validateSessionID(sid)]
                ELSE IF validateMessage(msg) # "nil"
                THEN [req EXCEPT !.pc = "failed", !.code = validateMessage(msg)]
                ELSE IF ~IsValidSession(Store, sid)
                THEN [req EXCEPT !.pc = "failed", !.code = "NotFound"]
                ELSE [req EXCEPT !.pc = "valid"]]
    /\ UNCHANGED <<auxVars, admVars, storeVars, minted, now, okCount, clean>>

\* if req.MessageIndex > 0 && req.MessageIndex != currentCount { Warn(...) }:
\* the call goes on with the server's count whatever the client sent.
IndexMismatchRejects(call, currentCount, messageIndex) ==
    IF messageIndex > 0 /\ messageIndex # currentCount
    THEN [call EXCEPT !.pc = "failed", !.code = "FailedPrecondition"]
    ELSE [call EXCEPT !.pc = "counted", !.currentCount = currentCount]
AfterIndexCheck(call, currentCount, messageIndex) ==
    [call EXCEPT !.pc = "counted", !.currentCount = currentCount]

\* currentMessages := GetMessages(id), then the index check, for a request
\* carrying messageIndex.
ChatCountWith(c, messageIndex) ==
    /\ calls[c].pc = "valid"
    /\ ~Returning
    /\ LET currentCount == Len(GetMessages(Store, calls[c].sessionId))
       IN  calls' = [calls EXCEPT ![c] =
                AfterIndexCheck(calls[c], currentCount, messageIndex)]
    /\ UNCHANGED <<admVars, chatsStarted, storeVars, minted, now, okCount, clean>>

ChatCount(c) ==
    /\ \E messageIndex \in MessageIndexes : ChatCountWith(c, messageIndex)
    /\ UNCHANGED auxVars

\* The same step, remembering the index the request carried.
ChatCountIndexed(c) ==
    /\ \E messageIndex \in MessageIndexes :
          /\ ChatCountWith(c, messageIndex)
          /\ reqIndex' = messageIndex
    /\ UNCHANGED <<maxSessions, lastRead, storeOps, rateClock, admitLog, gen, san, upstreamReplies, conc, sweeper>>

\* AppendMessage(id, User, message); an error ends the call.
ChatAppendUser(c) ==
    /\ calls[c].pc = "counted"
    /\ ~Returning
    /\ LET id == calls[c].sessionId
           res == AppendMessage(Store, now, id, "User", calls[c].message)
           mine == [calls[c] EXCEPT !.trace = @ \o Added(Store, res.st)]
       IN  /\ SetStore(res.st)
           /\ IF AppendFailed(res)
              THEN /\ calls' = [calls EXCEPT ![c] =
                          [mine EXCEPT !.pc = "failed", !.code = "ResourceExhausted"]]
                   /\ UNCHANGED clean
              ELSE /\ calls' = MarkInterference(c, id,
                          [calls EXCEPT ![c] = [mine EXCEPT !.pc = "userStored"]])
                   /\ clean' = [clean EXCEPT ![id] = @ /\ ~Overtakes(c, id)]
    /\ UNCHANGED <<auxVars, admVars, chatsStarted, totalSessionsCreated, minted, now, okCount>>

\* getProvider, GetMessagesAsLLMFormat, GenerateResponse, validateResponse and
\* sanitizeForTerminal: one read of the store, then no shared state.
ChatGenerate(c) ==
    /\ calls[c].pc = "userStored"
    /\ ~Returning
    /\ \E model \in Models, isDev \in BOOLEAN, geminiOK \in BOOLEAN :
        LET id == calls[c].sessionId
            provider == NewProvider(model, isDev, geminiOK)
            messages == GetMessagesAsLLMFormat(Store, id)
            mine == [calls[c] EXCEPT !.trace = Append(@, GenerateEvent)]
        IN  \E out \in ProviderOutcomes(provider, messages) :
              IF out.err # "nil"
              THEN /\ calls' = [calls EXCEPT ![c] =
                          [mine EXCEPT !.pc = "failed",
                                       !.code = LLMFailureCode(out.err),
                                       !.llmErr = out.err]]
                   /\ clean' = [clean EXCEPT ![id] = FALSE]
              ELSE IF validateResponse(out.text) # "nil"
              THEN /\ calls' = [calls EXCEPT ![c] =
                          [mine EXCEPT !.pc = "failed",
                                       !.code = validateResponse(out.text)]]
                   /\ clean' = [clean EXCEPT ![id] = FALSE]
              ELSE /\ calls' = [calls EXCEPT ![c] =
                          [mine EXCEPT !.pc = "generated",
                                       !.raw = out.text,
                                       !.reply = sanitizeForTerminal(out.text)]]
                   /\ UNCHANGED clean
    /\ UNCHANGED <<auxVars, admVars, chatsStarted, storeVars, minted, now, okCount>>

\* AppendMessage(id, Assistant, reply), then the response with currentCount + 2.
\* reply = sanitizedReply; AppendMessage(req.SessionId, Assistant, reply):
\* the text stored is the sanitised one, which is also the one returned.
StoredBeforeSanitising(call) == call.raw
AssistantText(call) == call.reply

ChatAppendAssistant(c) ==
    /\ calls[c].pc = "generated"
    /\ ~Returning
    /\ LET id == calls[c].sessionId
           res == AppendMessage(Store, now, id, "Assistant", AssistantText(calls[c]))
           mine == [calls[c] EXCEPT !.trace = @ \o Added(Store, res.st)]
       IN  /\ SetStore(res.st)
           /\ IF AppendFailed(res)
              THEN /\ calls' = [calls EXCEPT ![c] =
                          [mine EXCEPT !.pc = "failed", !.code = "ResourceExhausted"]]
                   /\ clean' = [clean EXCEPT ![id] = FALSE]
                   /\ UNCHANGED okCount
              ELSE /\ calls' = MarkInterference(c, id,
                          [calls EXCEPT ![c] =
                              [mine EXCEPT !.pc = "ok", !.code = "OK",
                                           !.messageCount = NewCount(mine.currentCount)]])
                   /\ clean' = [clean EXCEPT ![id] = @ /\ ~Overtakes(c, id)]
                   /\ okCount' = [okCount EXCEPT ![id] = @ + 1]
    /\ UNCHANGED <<auxVars, admVars, chatsStarted, totalSessionsCreated, minted, now>>

\* The response has been delivered; the goroutine is free for the next request.
ChatReturn(c) ==
    /\ calls[c].pc \in {"ok", "failed"}
    /\ calls' = [calls EXCEPT ![c] = IdleCall]
    /\ UNCHANGED <<auxVars, admVars, chatsStarted, storeVars, minted, now, okCount, clean>>

\* The janitor's tick.
CleanupIdleSessions ==
    /\ ~Returning
    /\ SetStore(CleanupIdle(Store, now))
    /\ UNCHANGED <<auxVars, admVars, chatsStarted, totalSessionsCreated, minted, now, calls, okCount, clean>>

Tick ==
    /\ ~Returning
    /\ now < MaxTime
    /\ now' = now + 1
    /\ UNCHANGED <<auxVars, admVars, chatsStarted, storeVars, minted, calls, okCount, clean>>

\* ------------------------------------------------------------------
\* Admission: AuthInterceptor, SpendingTracker, RateLimitInterceptor
\* ------------------------------------------------------------------

DailyCallLimit == 2
RateBurst == 2
MaxDay == 1
MaxRequests == 4

Reqs == {"r1", "r2"}
Methods == {"Health", "Chat", "GetMetrics"}
ClientIP == "10.0.0.1"

\* API_KEYS="ku,ka:admin", and API_KEYS unset.
ConfiguredKeys == [k \in {"ku", "ka"} |-> IF k = "ka" THEN "admin" ELSE "user"]
NoKeys == [k \in {} |-> "user"]

\* The incoming context: no metadata at all, or metadata whose "authorization"
\* values are strings, here written as the pair <<first seven bytes, rest>>.
NoMetadata == [ok |-> FALSE, authorization |-> <<>>]
Metadatas ==
    {NoMetadata, [ok |-> TRUE, authorization |-> <<>>]}
        \cup {[ok |-> TRUE, authorization |-> <<tok>>] :
                tok \in {<<"Basic  ", "ku">>, <<"Bearer ", "kx">>,
                         <<"Bearer ", "ku">>, <<"Bearer ", "ka">>}}

HasBearerPrefix(token) == token[1] = "Bearer "
TrimBearerPrefix(token) == token[2]

\* info.FullMethod == "/chat.ChatService/GetMetrics" && role != "admin"
RoleGateOpen(method, role) == FALSE
RoleGateFails(method, role) == method = "GetMetrics" /\ role # "admin"

\* The checks of AuthInterceptor that read only the request and the configured
\* keys, in the order of the code; checks lists the checks that were evaluated.
Rejection(code, reason, checks) ==
    [ok |-> FALSE, code |-> code, reason |-> reason, checks |-> checks,
     apiKey |-> "", role |-> ""]

AuthStaticRoleFirst(keys, method, md) ==
    IF DOMAIN keys = {} THEN
        Rejection("Unauthenticated", "no API keys configured", <<"configured">>)
    ELSE IF ~md.ok THEN
        Rejection("Unauthenticated", "missing metadata", <<"configured", "metadata">>)
    ELSE IF Len(md.authorization) = 0 THEN
        Rejection("Unauthenticated", "missing authorization header",
                  <<"configured", "metadata", "header">>)
    ELSE IF ~HasBearerPrefix(md.authorization[1]) THEN
        Rejection("Unauthenticated", "invalid authorization format",
                  <<"configured", "metadata", "header", "format">>)
    ELSE LET apiKey == TrimBearerPrefix(md.authorization[1])
             exists == apiKey \in DOMAIN keys
             role == IF exists THEN keys[apiKey] ELSE ""
         IN  IF RoleGateFails(method, role) THEN
                 Rejection("PermissionDenied", "admin access required",
                           <<"configured", "metadata", "header", "format", "role">>)
             ELSE IF ~exists THEN
                 Rejection("Unauthenticated", "invalid API key",
                           <<"configured", "metadata", "header", "format", "role", "key">>)
             ELSE [ok |-> TRUE, code |-> "", reason |-> "",
                   checks |-> <<"configured", "metadata", "header", "format",
                                "role", "key">>,
                   apiKey |-> apiKey, role |-> role]

AuthStatic(keys, method, md) ==
    IF DOMAIN keys = {} THEN
        Rejection("Unauthenticated", "no API keys configured", <<"configured">>)
    ELSE IF ~md.ok THEN
        Rejection("Unauthenticated", "missing metadata", <<"configured", "metadata">>)
    ELSE IF Len(md.authorization) = 0 THEN
        Rejection("Unauthenticated", "missing authorization header",
                  <<"configured", "metadata", "header">>)
    ELSE IF ~HasBearerPrefix(md.authorization[1]) THEN
        Rejection("Unauthenticated", "invalid authorization format",
                  <<"configured", "metadata", "header", "format">>)
    ELSE LET apiKey == TrimBearerPrefix(md.authorization[1])
             exists == apiKey \in DOMAIN keys
             role == IF exists THEN keys[apiKey] ELSE ""
         IN  IF ~exists THEN
                 Rejection("Unauthenticated", "invalid API key",
                           <<"configured", "metadata", "header", "format", "key">>)
             ELSE IF RoleGateFails(method, role) THEN
                 Rejection("PermissionDenied", "admin access required",
                           <<"configured", "metadata", "header", "format", "key",
                             "role">>)
             ELSE [ok |-> TRUE, code |-> "", reason |-> "",
                   checks |-> <<"configured", "metadata", "header", "format",
                                "key", "role">>,
                   apiKey |-> apiKey, role |-> role]

\* SpendingTracker.CanMakeCall and RecordCall, each one critical section.
CanMakeCall(u, today, apiKey) ==
    IF apiKey \notin DOMAIN u \/ u[apiKey].date # today
    THEN TRUE
    ELSE u[apiKey].calls < DailyCallLimit

RecordCallKeepsCounting(u, today, apiKey) ==
    IF apiKey \notin DOMAIN u
    THEN MapPut(u, apiKey, [date |-> today, calls |-> 1])
    ELSE MapPut(u, apiKey, [date |-> today, calls |-> u[apiKey].calls + 1])
RecordCall(u, today, apiKey) ==
    IF apiKey \notin DOMAIN u \/ u[apiKey].date # today
    THEN MapPut(u, apiKey, [date |-> today, calls |-> 1])
    ELSE MapPut(u, apiKey, [date |-> today, calls |-> u[apiKey].calls + 1])

\* RateLimitInterceptor's key: the identity the auth interceptor left in the
\* context, else the client address.
LimitKeyByIdentity(ctxKey) == <<"api_key:", ctxKey>>
LimitKey(ctxKey) ==
    IF ctxKey # "" THEN <<"api_key:", ctxKey>> ELSE <<"ip:", ClientIP>>

\* IPLimiter.Allow: a new key gets a full bucket; one token is taken if there is one.
AllowWithoutTaking(ls, key) ==
    LET tokens == IF key \in DOMAIN ls THEN ls[key] ELSE RateBurst
    IN  [ok |-> tokens >= 1, limiters |-> MapPut(ls, key, tokens)]

Allow(ls, key) ==
    LET tokens == IF key \in DOMAIN ls THEN ls[key] ELSE RateBurst
    IN  IF tokens >= 1
        THEN [ok |-> TRUE, limiters |-> MapPut(ls, key, tokens - 1)]
        ELSE [ok |-> FALSE, limiters |-> MapPut(ls, key, tokens)]

IdleReq ==
    [pc |-> "idle", method |-> "", md |-> NoMetadata, code |-> "", reason |-> "",
     checks |-> <<>>, apiKey |-> "", role |-> "", ctxKey |-> "", ctxRole |-> ""]

\* AuthInterceptor up to the role gate; Health goes straight to the next interceptor.
AuthBegin(r) ==
    /\ reqs[r].pc = "idle"
    /\ reqsStarted < MaxRequests
    /\ reqsStarted' = reqsStarted + 1
    /\ \E method \in Methods, md \in Metadatas :
        LET req == [IdleReq EXCEPT !.method = method, !.md = md]
            v == AuthStatic(apiKeys, method, md)
        IN  reqs' = [reqs EXCEPT ![r] =
                IF method = "Health" THEN [req EXCEPT !.pc = "rate"]
                ELSE IF ~v.ok
                THEN [req EXCEPT !.pc = "rejected", !.code = v.code,
                                 !.reason = v.reason, !.checks = v.checks]
                ELSE [req EXCEPT !.pc = "authed", !.checks = v.checks,
                                 !.apiKey = v.apiKey, !.role = v.role]]
    /\ UNCHANGED <<auxVars, storeVars, chatVars, apiKeys, usage, limiters, day, passed>>

\* The quota rejection returns before RecordCall is reached: nothing is counted.
RecordedOnRejection(u, today, apiKey) == RecordCall(u, today, apiKey)
UsageAfterRejection(u, today, apiKey) == u

\* if !spendingTracker.CanMakeCall(apiKey) { ResourceExhausted }
AuthCanMakeCall(r) ==
    /\ reqs[r].pc = "authed"
    /\ LET apiKey == reqs[r].apiKey
           mine == [reqs[r] EXCEPT !.checks = Append(@, "quota-admit")]
       IN  IF CanMakeCall(usage, day, apiKey)
           THEN /\ reqs' = [reqs EXCEPT ![r] = [mine EXCEPT !.pc = "admitted"]]
                /\ passed' = [passed EXCEPT ![apiKey][day] = @ + 1]
                /\ UNCHANGED usage
           ELSE /\ reqs' = [reqs EXCEPT ![r] =
                       [mine EXCEPT !.pc = "rejected", !.code = "ResourceExhausted",
                                    !.reason = "daily call limit exceeded"]]
                /\ usage' = UsageAfterRejection(usage, day, apiKey)
                /\ UNCHANGED passed
    /\ UNCHANGED <<auxVars, storeVars, chatVars, apiKeys, limiters, day, reqsStarted>>

\* spendingTracker.RecordCall(apiKey), then the identity and role go into the context.
AuthRecordCall(r) ==
    /\ reqs[r].pc = "admitted"
    /\ usage' = RecordCall(usage, day, reqs[r].apiKey)
    /\ reqs' = [reqs EXCEPT ![r] =
            [@ EXCEPT !.pc = "rate", !.checks = Append(@, "quota-record"),
                      !.ctxKey = reqs[r].apiKey, !.ctxRole = reqs[r].role]]
    /\ UNCHANGED <<auxVars, storeVars, chatVars, apiKeys, limiters, day, passed, reqsStarted>>

\* The rate interceptor has no access to the spending tracker: the quota
\* counter stays as the auth interceptor left it, admitted or not.
RolledBackOnRateLimit(u, ctxKey, ok) ==
    IF ~ok /\ ctxKey \in DOMAIN u
    THEN MapPut(u, ctxKey, [u[ctxKey] EXCEPT !.calls = @ - 1])
    ELSE u
UsageAfterRateLimit(u, ctxKey, ok) == u

\* RateLimitInterceptor; on success the handler is invoked.
RateLimit(r) ==
    /\ reqs[r].pc = "rate"
    /\ LET res == Allow(limiters, LimitKey(reqs[r].ctxKey))
           mine == [reqs[r] EXCEPT !.checks = Append(@, "rate-admit")]
       IN  /\ limiters' = res.limiters
           /\ usage' = UsageAfterRateLimit(usage, reqs[r].ctxKey, res.ok)
           /\ reqs' = [reqs EXCEPT ![r] =
                  IF res.ok THEN [mine EXCEPT !.pc = "handler", !.code = "OK"]
                  ELSE [mine EXCEPT !.pc = "rejected", !.code = "ResourceExhausted",
                                    !.reason = "rate limit exceeded"]]
    /\ UNCHANGED <<auxVars, storeVars, chatVars, apiKeys, day, passed, reqsStarted>>

\* What the handler can return: Chat fails on validation, on an unknown session,
\* on a store limit and on an upstream failure; Health and GetMetrics do not fail.
HandlerCodes(method) ==
    IF method = "Chat"
    THEN {"OK", "InvalidArgument", "NotFound", "ResourceExhausted", "Internal"}
    ELSE {"OK"}

\* return handler(ctx, req): the interceptor does nothing after the handler.
RefundedOnFailure(u, apiKey, code) ==
    IF code # "OK" /\ apiKey \in DOMAIN u
    THEN MapPut(u, apiKey, [u[apiKey] EXCEPT !.calls = @ - 1])
    ELSE u
UsageAfterHandler(u, apiKey, code) == u

\* The handler runs and returns its status.
Handler(r) ==
    /\ reqs[r].pc = "handler"
    /\ \E code \in HandlerCodes(reqs[r].method) :
        /\ reqs' = [reqs EXCEPT ![r] = [@ EXCEPT !.pc = "returned", !.code = code]]
        /\ usage' = UsageAfterHandler(usage, reqs[r].ctxKey, code)
    /\ UNCHANGED <<auxVars, storeVars, chatVars, apiKeys, limiters, day, passed, reqsStarted>>

\* The status or the handler's response goes back to the client.
AdmissionReturn(r) ==
    /\ reqs[r].pc \in {"returned", "rejected"}
    /\ reqs' = [reqs EXCEPT ![r] = IdleReq]
    /\ UNCHANGED <<auxVars, storeVars, chatVars, apiKeys, usage, limiters, day, passed, reqsStarted>>

\* Midnight, local time.
DayRoll ==
    /\ day < MaxDay
    /\ day' = day + 1
    /\ UNCHANGED <<auxVars, storeVars, chatVars, apiKeys, usage, limiters, reqs, passed, reqsStarted>>

\* rate.Limiter: as time passes a bucket regains tokens at RPS per second, up
\* to its capacity. One step of the limiter's clock is 1/RPS second: one token.
Refilled(ls) ==
    [key \in DOMAIN ls |-> IF ls[key] < RateBurst THEN ls[key] + 1 ELSE ls[key]]

\* Time passes: every bucket that is not full gains a token.
RateRefill ==
    /\ \E key \in DOMAIN limiters : limiters[key] < RateBurst
    /\ limiters' = Refilled(limiters)
    /\ UNCHANGED <<auxVars, storeVars, chatVars, apiKeys, usage, day, reqs, passed, reqsStarted>>

\* ------------------------------------------------------------------
\* Goroutines appending to one session at the same time
\* ------------------------------------------------------------------
\* Each goroutine appends its own numbered messages, one after the other;
\* AppendMessage holds the store's mutex from entry to return, so every call
\* is one step.
Threads == {"g1", "g2", "g3"}
MessagesPerThread == 2
ConcSession == "a"
ThreadCode == [g \in Threads |-> CASE g = "g1" -> 97 [] g = "g2" -> 98 [] OTHER -> 99]
TextOf(g, j) == <<ThreadCode[g], 48 + j>>

IdleConc == [g \in Threads |-> [sent |-> <<>>, errs |-> <<>>]]

ConcAppend(g) ==
    /\ ConcSession \in minted
    /\ Len(conc[g].sent) < MessagesPerThread
    /\ LET text == TextOf(g, Len(conc[g].sent) + 1)
           res == AppendMessage(Store, now, ConcSession, "User", text)
       IN  /\ SetStore(res.st)
           /\ conc' = [conc EXCEPT ![g] = [sent |-> Append(@.sent, text),
                                            errs |-> Append(@.errs, res.err)]]
    /\ UNCHANGED <<admVars, chatVars, totalSessionsCreated, maxSessions, lastRead, storeOps,
                   rateClock, admitLog, reqIndex, gen, san, upstreamReplies, sweeper>>

\* ------------------------------------------------------------------
\* The rate limiter's cleanup worker and Stop()
\* ------------------------------------------------------------------
\* NewIPLimiter starts cleanupWorker, which waits in a select for the ticker or
\* the stop channel. tick: the ticker's channel holds a value; closed:
\* stopCleanup has been closed; stop: where the caller of Stop() is;
\* lastSeen: limitEntry.lastSeen per key; sweptAfterStop: a cleanup ran after
\* Stop() had returned.
expiry == 1

IdleSweeper ==
    [pc |-> "select", tick |-> FALSE, closed |-> FALSE, stop |-> "idle",
     lastSeen |-> <<>>, sweptAfterStop |-> FALSE]

sweeperFrame ==
    <<storeVars, chatVars, apiKeys, usage, day, reqs, passed, reqsStarted,
      maxSessions, lastRead, storeOps, admitLog, reqIndex, gen, san, upstreamReplies,
      conc>>

\* IPLimiter.Allow(ip) with its bookkeeping of lastSeen.
AllowSeen(key) ==
    /\ limiters' = Allow(limiters, key).limiters
    /\ sweeper' = [sweeper EXCEPT !.lastSeen = MapPut(@, key, rateClock)]
    /\ UNCHANGED <<sweeperFrame, rateClock>>

\* The ticker sends on its channel (of capacity one) until the worker's
\* deferred ticker.Stop().
TickerFires ==
    /\ sweeper.pc # "exited"
    /\ ~sweeper.tick
    /\ sweeper' = [sweeper EXCEPT !.tick = TRUE]
    /\ UNCHANGED <<sweeperFrame, rateClock, limiters>>

\* cleanupWorker's select: either ready case may be taken.
WorkerSelect ==
    /\ sweeper.pc = "select"
    /\ \/ /\ sweeper.tick
          /\ sweeper' = [sweeper EXCEPT !.pc = "cleanup", !.tick = FALSE]
       \/ /\ sweeper.closed
          /\ sweeper' = [sweeper EXCEPT !.pc = "exited"]
    /\ UNCHANGED <<sweeperFrame, rateClock, limiters>>

\* The entries cleanup() leaves: those seen within the expiry.
StaleKeys(ls, seen, t) == {key \in DOMAIN ls : t - seen[key] > expiry}

\* il.cleanup(), one critical section.
WorkerCleanup ==
    /\ sweeper.pc = "cleanup"
    /\ LET stale == StaleKeys(limiters, sweeper.lastSeen, rateClock)
       IN  /\ limiters' = [key \in (DOMAIN limiters) \ stale |-> limiters[key]]
           /\ sweeper' = [sweeper EXCEPT
                  !.pc = "select",
                  !.lastSeen = [key \in (DOMAIN limiters) \ stale |-> @[key]],
                  !.sweptAfterStop = @ \/ sweeper.stop = "returned"]
    /\ UNCHANGED <<sweeperFrame, rateClock>>

\* Stop(): close(il.stopCleanup) and return; closing a closed channel panics.
Stop ==
    /\ sweeper.stop \in {"idle", "returned"}
    /\ sweeper' = IF sweeper.closed
                  THEN [sweeper EXCEPT !.stop = "panicked"]
                  ELSE [sweeper EXCEPT !.closed = TRUE, !.stop = "returned"]
    /\ UNCHANGED <<sweeperFrame, rateClock, limiters>>

vars == <<storeVars, chatVars, admVars, auxVars>>

InitAux ==
    /\ maxSessions = MaxSessions
    /\ lastRead = <<>>
    /\ storeOps = 0
    /\ rateClock = 0
    /\ admitLog = <<>>
    /\ reqIndex = 0
    /\ gen = IdleGen
    /\ conc = IdleConc
    /\ sweeper = IdleSweeper
    /\ san = IdleSan

InitAdmission ==
    /\ usage = <<>>
    /\ limiters = <<>>
    /\ day = 0
    /\ reqs = [r \in Reqs |-> IdleReq]
    /\ passed = [k \in DOMAIN ConfiguredKeys |-> [d \in 0..MaxDay |-> 0]]
    /\ reqsStarted = 0

InitServer ==
    /\ apiKeys = ConfiguredKeys
    /\ InitAdmission
    /\ InitAux
    /\ sessions = <<>>
    /\ validSessions = {}
    /\ sessionOrder = <<>>
    /\ totalSessionsCreated = 0
    /\ minted = {}
    /\ now = 0
    /\ calls = [c \in Calls |-> IdleCall]
    /\ okCount = [id \in UUIDs |-> 0]
    /\ clean = [id \in UUIDs |-> TRUE]
    /\ chatsStarted = 0

Init == InitServer /\ upstreamReplies = RawReplies

\* The same server in front of an upstream that can also answer with a text of
\* exactly the response cap.
InitCap == InitServer /\ upstreamReplies = RawReplies \cup {CapReply}

Next ==
    \/ StartSession
    \/ \E c \in Calls : ChatBegin(c)
    \/ \E c \in Calls : ChatCount(c)
    \/ \E c \in Calls : ChatAppendUser(c)
    \/ \E c \in Calls : ChatGenerate(c)
    \/ \E c \in Calls : ChatAppendAssistant(c)
    \/ \E c \in Calls : ChatReturn(c)
    \/ CleanupIdleSessions
    \/ Tick

Spec == Init /\ [][Next]_vars

\* One Chat at a time, with the index of the latest request kept in reqIndex.
NextIndex ==
    \/ StartSession
    \/ ChatBegin("c1")
    \/ ChatCountIndexed("c1")
    \/ ChatAppendUser("c1")
    \/ ChatGenerate("c1")
    \/ ChatAppendAssistant("c1")
    \/ ChatReturn("c1")
    \/ CleanupIdleSessions
    \/ Tick

SpecIndex == Init /\ [][NextIndex]_vars
SpecCap == InitCap /\ [][NextIndex]_vars

\* The retry loop alone.
SpecGen == Init /\ [][NextGen]_vars

\* The factory and the reply path alone.
SpecReply == Init /\ [][NextReply]_vars

\* The admission pipeline alone, with and without configured API keys.
InitAdm ==
    /\ apiKeys \in {NoKeys, ConfiguredKeys}
    /\ upstreamReplies = RawReplies
    /\ InitAdmission
    /\ InitAux
    /\ sessions = <<>>
    /\ validSessions = {}
    /\ sessionOrder = <<>>
    /\ totalSessionsCreated = 0
    /\ minted = {}
    /\ now = 0
    /\ calls = [c \in Calls |-> IdleCall]
    /\ okCount = [id \in UUIDs |-> 0]
    /\ clean = [id \in UUIDs |-> TRUE]
    /\ chatsStarted = 0

NextAdm ==
    \/ \E r \in Reqs : AuthBegin(r)
    \/ \E r \in Reqs : AuthCanMakeCall(r)
    \/ \E r \in Reqs : AuthRecordCall(r)
    \/ \E r \in Reqs : RateLimit(r)
    \/ \E r \in Reqs : Handler(r)
    \/ \E r \in Reqs : AdmissionReturn(r)
    \/ DayRoll
    \/ RateRefill

SpecAdm == InitAdm /\ [][NextAdm]_vars

\* ------------------------------------------------------------------
\* The session store on its own: RegisterSession, AppendMessage, the reads
\* and the janitor, each one critical section, called in any order
\* ------------------------------------------------------------------
\* NewSessionStore(..., maxSessions = 2, ...); three ids are registered in turn.
LruMaxSessions == 2
MaxStoreOps == 5
StoreMintOrder == <<"a", "b", "c">>
StoreIds == {StoreMintOrder[i] : i \in 1..Len(StoreMintOrder)}
StoreRoles == {"User", "Assistant"}
\* twelve three-byte runes: 36 bytes of text
LongText == [i \in 1..12 |-> 8364]
StoreTexts == {<<104>>, LongText}
ReadFns == {"GetMessages", "GetFormattedMessages", "GetMessagesAsLLMFormat"}

\* The reads take s.mu.RLock() and write nothing.
StoreTouchedByRead(st, sessionID) ==
    IF sessionID \in DOMAIN st.sessions
    THEN [st EXCEPT !.sessionOrder = updateSessionOrder(st.sessionOrder, sessionID)]
    ELSE st
StoreAfterRead(st, sessionID) == st

ReadResult(fn, st, sessionID) ==
    CASE fn = "GetMessages" -> GetMessages(st, sessionID)
      [] fn = "GetFormattedMessages" -> GetFormattedMessages(st, sessionID)
      [] OTHER -> GetMessagesAsLLMFormat(st, sessionID)

\* s.RegisterSession(sessionID), with the id StartSession has just minted.
Register ==
    \E sessionID \in StoreIds \ minted :
        /\ sessionID = StoreMintOrder[Cardinality(minted) + 1]
        /\ minted' = minted \cup {sessionID}
        /\ validSessions' = validSessions \cup {sessionID}
        /\ totalSessionsCreated' = totalSessionsCreated + 1
        /\ UNCHANGED <<auxVars, admVars, chatsStarted, sessions, sessionOrder, now,
                       calls, okCount, clean>>

\* s.AppendMessage(sessionID, role, text), on a registered id or on one that
\* was never registered.
StoreAppend(sessionID, role, text) ==
    /\ storeOps < MaxStoreOps
    /\ storeOps' = storeOps + 1
    /\ SetStore(AppendMessage(Store, now, sessionID, role, text).st)
    /\ lastRead' = <<>>
    /\ UNCHANGED <<admVars, chatVars, totalSessionsCreated, maxSessions, rateClock,
                   admitLog, reqIndex, gen, san, upstreamReplies, conc, sweeper>>

\* s.GetMessages, s.GetFormattedMessages (GetHistory) or s.GetMessagesAsLLMFormat.
StoreRead(fn, sessionID) ==
    /\ storeOps < MaxStoreOps
    /\ storeOps' = storeOps + 1
    /\ SetStore(StoreAfterRead(Store, sessionID))
    /\ lastRead' = <<sessionID, Len(ReadResult(fn, Store, sessionID))>>
    /\ UNCHANGED <<admVars, chatVars, totalSessionsCreated, maxSessions, rateClock,
                   admitLog, reqIndex, gen, san, upstreamReplies, conc, sweeper>>

InitStoreOf(capacity) ==
    /\ apiKeys = ConfiguredKeys
    /\ InitAdmission
    /\ maxSessions = capacity
    /\ upstreamReplies = RawReplies
    /\ lastRead = <<>>
    /\ storeOps = 0
    /\ rateClock = 0
    /\ admitLog = <<>>
    /\ reqIndex = 0
    /\ gen = IdleGen
    /\ conc = IdleConc
    /\ sweeper = IdleSweeper
    /\ san = IdleSan
    /\ sessions = <<>>
    /\ validSessions = {}
    /\ sessionOrder = <<>>
    /\ totalSessionsCreated = 0
    /\ minted = {}
    /\ now = 0
    /\ calls = [c \in Calls |-> IdleCall]
    /\ okCount = [id \in UUIDs |-> 0]
    /\ clean = [id \in UUIDs |-> TRUE]
    /\ chatsStarted = 0

NextStore ==
    \/ Register
    \/ \E sessionID \in minted \cup {ForgedId}, role \in StoreRoles, text \in StoreTexts :
          StoreAppend(sessionID, role, text)
    \/ \E fn \in ReadFns, sessionID \in minted \cup {ForgedId} : StoreRead(fn, sessionID)
    \/ CleanupIdleSessions
    \/ Tick

InitStore == InitStoreOf(LruMaxSessions)

SpecStore == InitStore /\ [][NextStore]_vars

\* The same store with room for every id, so that a sweep can leave several
\* sessions behind.
SweepMaxSessions == 3
InitSweep == InitStoreOf(SweepMaxSessions)

SpecSweep == InitSweep /\ [][NextStore]_vars

\* Goroutines appending to session "a" while ids are registered and the clock
\* moves.
NextConc ==
    \/ Register
    \/ \E g \in Threads : ConcAppend(g)
    \/ Tick

SpecConc == InitStore /\ [][NextConc]_vars

\* The store with a text that is larger than a whole session may be: 36
\* three-byte runes are 108 bytes, 136 with the role string and the overhead.
HugeText == [i \in 1..36 |-> 8364]
OverTexts == {<<104>>, HugeText}

NextOver ==
    \/ Register
    \/ \E sessionID \in minted \cup {ForgedId}, role \in StoreRoles, text \in OverTexts :
          StoreAppend(sessionID, role, text)
    \/ \E fn \in ReadFns, sessionID \in minted \cup {ForgedId} : StoreRead(fn, sessionID)
    \/ CleanupIdleSessions
    \/ Tick

SpecOver == InitStore /\ [][NextOver]_vars

\* The store with the janitor: the ticker of the cleanup goroutine keeps
\* firing, so time passes and a sweep that has something to remove is run.
SpecJanitor ==
    /\ InitStore
    /\ [][NextStore]_vars
    /\ WF_vars(Tick)
    /\ WF_vars(CleanupIdleSessions)

\* ------------------------------------------------------------------
\* The rate limiter on its own clock
\* ------------------------------------------------------------------
\* The clock counts steps of 1/RPS second; RatePerSecond of them are a second.
RatePerSecond == 2
MaxRateClock == 4
RateKeys == {<<"api_key:", "ku">>, <<"ip:", ClientIP>>}

\* ipLimiter.Allow(key) at the current instant; an admission is logged.
LimiterAllow(key) ==
    /\ LET res == Allow(limiters, key)
       IN  /\ limiters' = res.limiters
           /\ admitLog' = IF res.ok THEN Append(admitLog, <<key, rateClock>>)
                          ELSE admitLog
    /\ UNCHANGED <<storeVars, chatVars, apiKeys, usage, day, reqs, passed, reqsStarted,
                   maxSessions, lastRead, storeOps, rateClock, reqIndex, gen, san, upstreamReplies, conc, sweeper>>

\* 1/RPS second passes.
LimiterTick ==
    /\ rateClock < MaxRateClock
    /\ rateClock' = rateClock + 1
    /\ limiters' = Refilled(limiters)
    /\ UNCHANGED <<storeVars, chatVars, apiKeys, usage, day, reqs, passed, reqsStarted,
                   maxSessions, lastRead, storeOps, admitLog, reqIndex, gen, san, upstreamReplies, conc, sweeper>>

NextRate ==
    \/ \E key \in RateKeys : LimiterAllow(key)
    \/ LimiterTick

SpecRate == Init /\ [][NextRate]_vars

\* The limiter with its cleanup worker and a caller of Stop().
NextSweeper ==
    \/ \E key \in RateKeys : AllowSeen(key)
    \/ LimiterTick
    \/ TickerFires
    \/ WorkerSelect
    \/ WorkerCleanup
    \/ Stop

SpecSweeper == Init /\ [][NextSweeper]_vars

\* ------------------------------------------------------------------
\* Statements about the Chat handler and the store (under Spec)
\* ------------------------------------------------------------------
UserAppendEvent(c) ==
    [ev |-> "append", sid |-> calls[c].sessionId, role |-> "User",
     text |-> calls[c].message]
AssistantAppendEvent(c) ==
    [ev |-> "append", sid |-> calls[c].sessionId, role |-> "Assistant",
     text |-> calls[c].reply]

\* C1: a Chat that returns success has appended exactly two messages, to the
\* session it names: its user message, then - after the upstream Generate call -
\* the assistant reply; it appended nothing else anywhere.
C1_SuccessAppendsUserThenAssistant ==
    \A c \in Calls :
        calls[c].pc = "ok" =>
            calls[c].trace =
                <<UserAppendEvent(c), GenerateEvent, AssistantAppendEvent(c)>>

C1_Witness ==
    \E c \in Calls :
        /\ calls[c].pc = "ok"
        /\ Len(calls[c].trace) = 3
        /\ calls[c].reply = <<97, 98>>

\* The session's last two messages are the call's user message and its reply.
LastTwoAreMine(c) ==
    LET m == GetMessages(Store, calls[c].sessionId)
        n == Len(m)
    IN  /\ n >= 2
        /\ m[n - 1].Role = "User" /\ m[n - 1].Text = calls[c].message
        /\ m[n].Role = "Assistant" /\ m[n].Text = calls[c].reply

\* C2 as claimed: when a Chat returns success the session's last two messages
\* are its user message and its reply, also when Chat calls on the session overlap.
C2_LastTwoUnderAnyOverlap ==
    \A c \in Calls : calls[c].pc = "ok" => LastTwoAreMine(c)

\* C2, amended: when a Chat returns success and no other Chat appended to the
\* session between this call's user append and its assistant append, the
\* session's last two messages are (user, its message), (assistant, its reply).
C2_LastTwoWhenNotOvertaken ==
    \A c \in Calls :
        calls[c].pc = "ok" /\ calls[c].interf # "late" => LastTwoAreMine(c)

C2_Witness ==
    \E c \in Calls, d \in Calls :
        /\ c # d
        /\ calls[c].pc = "ok" /\ calls[c].interf # "late"
        /\ calls[c].currentCount = 2
        /\ calls[d].sessionId = calls[c].sessionId /\ calls[d].pc = "valid"
        /\ LastTwoAreMine(c)

\* C3 as claimed: the message_count a successful Chat returns is the number of
\* messages GetHistory reports right after the return, under every interleaving.
C3_CountIsHistoryLengthAlways ==
    \A c \in Calls :
        calls[c].pc = "ok" =>
            calls[c].messageCount
                = Len(GetFormattedMessages(Store, calls[c].sessionId))

\* C3, amended: the returned message_count is the number of messages GetHistory
\* reports right after the return when no other Chat appended to the session
\* between this call's read of the count and its return (eviction and sweeping
\* of any session in between are allowed).
C3_CountIsHistoryLengthWhenNotOverlapped ==
    \A c \in Calls :
        calls[c].pc = "ok" /\ calls[c].interf = "none" =>
            calls[c].messageCount
                = Len(GetFormattedMessages(Store, calls[c].sessionId))

C3_Witness ==
    \E c \in Calls :
        /\ calls[c].pc = "ok" /\ calls[c].interf = "none"
        /\ calls[c].messageCount = 3
        /\ Len(GetFormattedMessages(Store, calls[c].sessionId)) = 3

\* C4 as claimed: the k-th successful Chat on a session returns 2*k, whatever
\* failed Chat calls happened on the session.
C4_CountIsTwiceSuccessesAlways ==
    \A c \in Calls :
        calls[c].pc = "ok" =>
            calls[c].messageCount = 2 * okCount[calls[c].sessionId]

\* C4, amended: on a session on which no Chat failed after appending its user
\* message and no two Chat calls overlapped, the k-th successful Chat returns
\* message_count = 2*k.
C4_CountIsTwiceSuccessesOnCleanSession ==
    \A c \in Calls :
        calls[c].pc = "ok" /\ clean[calls[c].sessionId] =>
            calls[c].messageCount = 2 * okCount[calls[c].sessionId]

C4_Witness ==
    \E c \in Calls :
        /\ calls[c].pc = "ok" /\ clean[calls[c].sessionId]
        /\ okCount[calls[c].sessionId] = 2
        /\ calls[c].messageCount = 4

\* The call failed after its user message had been appended.
FailedAfterUserAppend(c) ==
    /\ calls[c].pc = "failed"
    /\ Len(calls[c].trace) >= 1
    /\ calls[c].trace[1] = UserAppendEvent(c)

NoAssistantAppend(c) ==
    \A i \in 1..Len(calls[c].trace) : calls[c].trace[i].role # "Assistant"

HoldsUserMessage(c) ==
    LET m == GetMessages(Store, calls[c].sessionId)
    IN  \E i \in 1..Len(m) : m[i].Role = "User" /\ m[i].Text = calls[c].message

EndsInUserMessage(c) ==
    LET m == GetMessages(Store, calls[c].sessionId)
    IN  /\ Len(m) >= 1
        /\ m[Len(m)].Role = "User" /\ m[Len(m)].Text = calls[c].message

\* C5 as claimed: when a Chat fails after its user append, GetHistory shows the
\* session ending in that user message, and the call added no assistant message.
C5_OneSidedStateAlways ==
    \A c \in Calls :
        FailedAfterUserAppend(c) => NoAssistantAppend(c) /\ EndsInUserMessage(c)

\* C5, amended: when a Chat fails after its user append, the call has added no
\* assistant message and has not taken the user message back: a session that
\* still exists (not evicted or swept meanwhile) still holds the user message,
\* and ends in it when no other Chat appended to the session after it.
C5_OneSidedStateWhileSessionLives ==
    \A c \in Calls :
        FailedAfterUserAppend(c) =>
            /\ NoAssistantAppend(c)
            /\ Len(calls[c].trace) <= 2
            /\ calls[c].sessionId \in DOMAIN sessions => HoldsUserMessage(c)
            /\ calls[c].sessionId \in DOMAIN sessions /\ calls[c].interf # "late"
                   => EndsInUserMessage(c)

C5_Witness ==
    \E c \in Calls :
        /\ FailedAfterUserAppend(c)
        /\ calls[c].code = "ResourceExhausted"
        /\ Len(calls[c].trace) = 2
        /\ calls[c].reply # <<>>
        /\ calls[c].sessionId \in DOMAIN sessions
        /\ EndsInUserMessage(c)

\* C6: a Chat with a well-formed session id that is not in the valid set (never
\* minted, or evicted or swept since) fails with NotFound and leaves the store
\* as it was; an AppendMessage on an id that is not in the valid set returns an
\* error and leaves the session map, the valid set and the LRU order as they were.
C6_UnknownSessionChangesNothing ==
    [][\A c \in Calls :
          /\ ( /\ calls[c].pc = "idle" /\ calls'[c].pc # "idle"
               /\ validateSessionID(calls'[c].sessionId) = "nil"
               /\ validateMessage(calls'[c].message) = "nil"
               /\ calls'[c].sessionId \notin validSessions )
             => ( /\ calls'[c].pc = "failed" /\ calls'[c].code = "NotFound"
                  /\ UNCHANGED storeVars )
          /\ ( /\ calls[c].pc \in {"counted", "generated"}
               /\ calls'[c].pc # calls[c].pc
               /\ calls[c].sessionId \notin validSessions )
             => ( /\ calls'[c].pc = "failed"
                  /\ calls'[c].code = "ResourceExhausted"
                  /\ calls'[c].trace = calls[c].trace
                  /\ UNCHANGED storeVars )
      ]_vars

C6_Witness ==
    \E c \in Calls :
        /\ calls[c].pc = "failed" /\ calls[c].code = "NotFound"
        /\ calls[c].sessionId \in minted \ validSessions

AdmissionOrder ==
    <<"configured", "metadata", "header", "format", "key", "role",
      "quota-admit", "quota-record", "rate-admit">>

ReasonOf(check) ==
    CASE check = "configured" -> <<"Unauthenticated", "no API keys configured">>
      [] check = "metadata" -> <<"Unauthenticated", "missing metadata">>
      [] check = "header" -> <<"Unauthenticated", "missing authorization header">>
      [] check = "format" -> <<"Unauthenticated", "invalid authorization format">>
      [] check = "key" -> <<"Unauthenticated", "invalid API key">>
      [] check = "role" -> <<"PermissionDenied", "admin access required">>
      [] check = "quota-admit" -> <<"ResourceExhausted", "daily call limit exceeded">>
      [] check = "rate-admit" -> <<"ResourceExhausted", "rate limit exceeded">>
      [] OTHER -> <<"", "">>

\* The request carries a configured key.
HasCredential(q) ==
    /\ DOMAIN apiKeys # {}
    /\ q.md.ok
    /\ Len(q.md.authorization) > 0
    /\ q.md.authorization[1][1] = "Bearer "
    /\ q.md.authorization[1][2] \in DOMAIN apiKeys

\* What each check that reads only the request asks of it.
RequestPasses(check, q) ==
    CASE check = "configured" -> DOMAIN apiKeys # {}
      [] check = "metadata" -> q.md.ok
      [] check = "header" -> q.md.ok /\ Len(q.md.authorization) > 0
      [] check = "format" ->
            /\ q.md.ok /\ Len(q.md.authorization) > 0
            /\ q.md.authorization[1][1] = "Bearer "
      [] check = "key" -> HasCredential(q)
      [] check = "role" ->
            HasCredential(q) /\
                (q.method = "GetMetrics" => apiKeys[q.md.authorization[1][2]] = "admin")
      [] OTHER -> TRUE

IsPrefixOfOrder(checks) ==
    /\ Len(checks) <= Len(AdmissionOrder)
    /\ \A i \in 1..Len(checks) : checks[i] = AdmissionOrder[i]

\* C8: a request to a method other than Health goes through the checks in the
\* order not-configured, missing-metadata, missing-auth-header, invalid-format,
\* invalid-key, role gate, quota admit and record, rate admit; the first check
\* that fails decides the status and no later check runs; the handler is
\* invoked only when all passed, with the key and its role in the context.
C8_AdmissionOrderFirstFailureDecides ==
    \A r \in Reqs :
        LET q == reqs[r]
            n == Len(q.checks)
        IN  q.pc # "idle" /\ q.method # "Health" =>
              /\ IsPrefixOfOrder(q.checks)
              /\ \A i \in 1..(n - 1) : RequestPasses(q.checks[i], q)
              /\ q.pc = "rejected" =>
                    /\ n >= 1
                    /\ <<q.code, q.reason>> = ReasonOf(q.checks[n])
                    /\ q.checks[n] # "quota-record"
                    /\ Len(q.checks) <= 6 => ~RequestPasses(q.checks[n], q)
                    /\ q.ctxKey = "" \/ q.checks[n] = "rate-admit"
              /\ q.pc = "handler" =>
                    /\ q.checks = AdmissionOrder
                    /\ \A i \in 1..n : RequestPasses(q.checks[i], q)
                    /\ q.ctxKey = q.md.authorization[1][2]
                    /\ q.ctxRole = apiKeys[q.ctxKey]

C8_Witness ==
    \E r1 \in Reqs, r2 \in Reqs :
        /\ reqs[r1].pc = "handler" /\ reqs[r1].method = "Chat"
        /\ reqs[r1].ctxKey = "ku" /\ reqs[r1].ctxRole = "user"
        /\ reqs[r2].pc = "rejected" /\ reqs[r2].method = "Chat"
        /\ reqs[r2].reason = "rate limit exceeded"
        /\ Len(reqs[r2].checks) = 9

\* C9: the handler of GetMetrics is invoked only for a key with the admin role;
\* GetMetrics with a configured key of another role is refused PermissionDenied,
\* and with no key, a malformed one or one that is not configured, Unauthenticated.
C9_GetMetricsAdminOnly ==
    \A r \in Reqs :
        LET q == reqs[r]
        IN  q.pc # "idle" /\ q.method = "GetMetrics" =>
              /\ q.pc = "handler" =>
                    HasCredential(q) /\ apiKeys[q.md.authorization[1][2]] = "admin"
              /\ HasCredential(q) /\ apiKeys[q.md.authorization[1][2]] # "admin" =>
                    q.pc = "rejected" /\ q.code = "PermissionDenied"
              /\ ~HasCredential(q) =>
                    q.pc = "rejected" /\ q.code = "Unauthenticated"

C9_Witness ==
    \E r1 \in Reqs, r2 \in Reqs :
        /\ reqs[r1].pc = "handler" /\ reqs[r1].method = "GetMetrics"
        /\ reqs[r1].ctxRole = "admin"
        /\ reqs[r2].pc = "rejected" /\ reqs[r2].method = "GetMetrics"
        /\ reqs[r2].code = "PermissionDenied"
        /\ reqs[r2].md.authorization = <<<<"Bearer ", "ku">>>>

\* C10: for every key and day, the number of requests that passed the quota
\* check is at most DAILY_CALL_LIMIT, however many requests run concurrently.
C10_PassedQuotaWithinLimit ==
    \A k \in DOMAIN passed : \A d \in DOMAIN passed[k] :
        passed[k][d] <= DailyCallLimit

\* The calls counted for a key on a date.
DayCount(u, apiKey, date) ==
    IF apiKey \in DOMAIN u /\ u[apiKey].date = date THEN u[apiKey].calls ELSE 0

\* C11: the quota is charged on admit: recording a call adds exactly one to the
\* key's counter of the day, this happens before the handler starts, and no
\* other step - the handler failing, the response going back - changes a
\* counter: the increment is kept whatever the handler returns.
C11_QuotaChargedOnAdmit ==
    [][\A r \in Reqs :
          /\ ( reqs[r].pc = "admitted" /\ reqs'[r].pc = "rate" ) =>
                /\ DayCount(usage', reqs[r].apiKey, day)
                       = DayCount(usage, reqs[r].apiKey, day) + 1
                /\ \A k \in (DOMAIN usage') \ {reqs[r].apiKey} :
                       k \in DOMAIN usage /\ usage'[k] = usage[k]
          /\ ( reqs[r].pc = "handler" /\ reqs'[r].pc = "returned" ) =>
                /\ usage' = usage
                /\ reqs[r].method # "Health" =>
                      /\ reqs[r].ctxKey \in DOMAIN usage
                      /\ usage[reqs[r].ctxKey].calls >= 1
          /\ ( reqs[r].pc \in {"returned", "rejected"} /\ reqs'[r].pc = "idle" ) =>
                usage' = usage
      ]_vars

C11_Witness ==
    \E r \in Reqs :
        /\ reqs[r].pc = "returned" /\ reqs[r].method = "Chat"
        /\ reqs[r].code = "Internal"
        /\ reqs[r].ctxKey = "ku"
        /\ DayCount(usage, "ku", day) = 1

\* C13: a Health request needs no credential and never touches the quota
\* tracker, with or without configured API keys: it passes the auth
\* interceptor unchecked, with no identity in its context, and the only
\* admission applied to it is the rate limiter under the key "ip:" + client
\* address; a rate-limit refusal is the only way it does not reach its handler.
C13_HealthOnlyRateLimitedByAddress ==
    [][\A r \in Reqs :
          /\ reqs'[r].method = "Health" =>
                /\ reqs'[r].pc \in {"rate", "handler", "returned", "rejected"}
                /\ reqs'[r].ctxKey = "" /\ reqs'[r].apiKey = ""
                /\ reqs'[r].pc = "rejected" => reqs'[r].reason = "rate limit exceeded"
                /\ \A i \in 1..Len(reqs'[r].checks) : reqs'[r].checks[i] = "rate-admit"
          /\ ( reqs'[r] # reqs[r] /\
               (reqs[r].method = "Health" \/ reqs'[r].method = "Health") ) =>
                /\ usage' = usage /\ passed' = passed
                /\ \A key \in DOMAIN limiters' :
                      key # <<"ip:", ClientIP>> =>
                          key \in DOMAIN limiters /\ limiters'[key] = limiters[key]
          /\ ( reqs[r].method = "Health" /\ reqs[r].pc = "rate" /\ reqs'[r].pc # "rate" ) =>
                /\ <<"ip:", ClientIP>> \in DOMAIN limiters'
                /\ reqs'[r].pc = "handler" <=>
                      (<<"ip:", ClientIP>> \in DOMAIN limiters =>
                           limiters[<<"ip:", ClientIP>>] >= 1)
      ]_vars

C13_Witness ==
    \E r \in Reqs :
        /\ apiKeys = NoKeys
        /\ reqs[r].method = "Health" /\ reqs[r].pc = "returned"
        /\ reqs[r].md = NoMetadata
        /\ DOMAIN limiters = {<<"ip:", ClientIP>>}
        /\ usage = <<>>

\* ------------------------------------------------------------------
\* Statements about the rate limiter (under SpecRate)
\* ------------------------------------------------------------------
\* The admissions of key at the instants from..to.
AdmitsWithin(key, from, to) ==
    Cardinality({i \in 1..Len(admitLog) :
                    /\ admitLog[i][1] = key
                    /\ admitLog[i][2] >= from /\ admitLog[i][2] <= to})

\* C12 as claimed: in every window of one second (here the RatePerSecond
\* instants from t to just before t + 1 s) a key is admitted at most BURST times.
C12_AtMostBurstPerSecond ==
    \A key \in RateKeys : \A t \in 0..MaxRateClock :
        AdmitsWithin(key, t, t + RatePerSecond - 1) <= RateBurst

\* C12, amended: in every window of one second, both ends included, a key is
\* admitted at most BURST + RPS times: the BURST tokens the bucket can hold at
\* the start of the window plus the RPS tokens it regains during it.
C12_AtMostBurstPlusRatePerSecond ==
    \A key \in RateKeys : \A t \in 0..MaxRateClock :
        AdmitsWithin(key, t, t + RatePerSecond) <= RateBurst + RatePerSecond

C12_Witness ==
    \E key \in RateKeys : \E t \in 1..MaxRateClock :
        /\ AdmitsWithin(key, t, t + RatePerSecond) = RateBurst + RatePerSecond
        /\ AdmitsWithin(key, t, t + RatePerSecond - 1) > RateBurst
        /\ limiters[key] = 0

\* ------------------------------------------------------------------
\* Statements about the session store (under SpecStore)
\* ------------------------------------------------------------------
\* C14: in every reachable state the store holds at most MAX_SESSIONS sessions,
\* whatever the order of Register, Append, the reads and the sweep.
C14_AtMostMaxSessions ==
    Cardinality(DOMAIN sessions) <= maxSessions

C14_Witness ==
    /\ Cardinality(DOMAIN sessions) = maxSessions
    /\ now = 0
    /\ \E id \in minted : id \notin validSessions
    /\ Cardinality(minted) = 3

\* The append of (role, text) to id would have to create the session, and the
\* store is full.
OverflowingInsert(id) ==
    /\ id \in validSessions /\ id \notin DOMAIN sessions
    /\ Cardinality(DOMAIN sessions) = maxSessions

\* C15: an Append that materialises a new session in a full store evicts exactly
\* one session, the head of the LRU order, whose last_active is the oldest of
\* all; the sessions afterwards are the previous ones minus the evicted one plus
\* the new one, and the evicted id has left the valid set too.
C15_OverflowEvictsLeastRecentlyUsed ==
    \A id \in StoreIds : \A role \in StoreRoles : \A text \in StoreTexts :
        OverflowingInsert(id) =>
            LET after == AppendMessage(Store, now, id, role, text).st
                victim == Head(sessionOrder)
            IN  /\ victim \in DOMAIN sessions
                /\ \A other \in DOMAIN sessions :
                       sessions[victim].LastActive <= sessions[other].LastActive
                /\ DOMAIN after.sessions = ((DOMAIN sessions) \ {victim}) \cup {id}
                /\ after.validSessions = validSessions \ {victim}
                /\ \A other \in (DOMAIN sessions) \ {victim} :
                       after.sessions[other] = sessions[other]

\* The store is full, the session created first was appended to last, and the
\* third id is about to be materialised: the second session is the one to go.
C15_Witness ==
    /\ OverflowingInsert("c")
    /\ sessionOrder = <<"b", "a">>
    /\ sessions["b"].LastActive < sessions["a"].LastActive
    /\ DOMAIN AppendMessage(Store, now, "c", "User", <<104>>).st.sessions = {"a", "c"}

\* C16: every id in the store is in the valid set, and any step that takes an
\* id out of the store (eviction, sweep) takes it out of the valid set in the
\* same step, and the other way round.
C16_StoreWithinValidSet ==
    [][/\ DOMAIN sessions \subseteq validSessions
       /\ DOMAIN sessions' \subseteq validSessions'
       /\ \A id \in StoreIds \cup {ForgedId} :
             /\ (id \in DOMAIN sessions /\ id \notin DOMAIN sessions')
                    => id \notin validSessions'
             /\ (id \in validSessions /\ id \notin validSessions')
                    => id \notin DOMAIN sessions'
             /\ (id \in validSessions /\ id \notin validSessions')
                    => id \in DOMAIN sessions
      ]_vars

C16_Witness ==
    /\ now = 1
    /\ "a" \in minted /\ "a" \notin validSessions /\ "a" \notin DOMAIN sessions
    /\ "b" \in minted /\ "b" \notin validSessions /\ "b" \notin DOMAIN sessions
    /\ "c" \in DOMAIN sessions
    /\ Len(sessions["c"].Messages) = 2
    /\ sessions["c"].LastActive = 1

\* C17: every session has at most MAX_MESSAGES_PER_SESSION messages and an
\* estimated size of at most MAX_SESSION_SIZE_BYTES; an Append that would break
\* either bound returns a limit error and leaves every session's messages as
\* they were.
C17_SessionWithinLimits ==
    /\ \A id \in DOMAIN sessions :
          /\ Len(sessions[id].Messages) <= MaxMessagesPerSession
          /\ getSessionSize(sessions[id]) <= MaxSessionSizeBytes
    /\ \A id \in DOMAIN sessions : \A role \in StoreRoles : \A text \in StoreTexts :
          LET before == sessions[id].Messages
              size == getSessionSize(sessions[id]) + ByteLen(text)
                          + Len(RoleString(role)) + 24
          IN  (Len(before) + 1 > MaxMessagesPerSession \/ size > MaxSessionSizeBytes)
              => LET res == AppendMessage(Store, now, id, role, text)
                 IN  /\ res.err \in {"session message limit exceeded",
                                     "session size limit exceeded"}
                     /\ res.st.sessions = sessions

\* One session is at the message limit, another would pass the size limit with
\* its next assistant message.
C17_Witness ==
    \E id \in DOMAIN sessions, other \in DOMAIN sessions :
        /\ Len(sessions[id].Messages) = MaxMessagesPerSession
        /\ AppendMessage(Store, now, id, "User", <<104>>).err
               = "session message limit exceeded"
        /\ Len(sessions[other].Messages) < MaxMessagesPerSession
        /\ AppendMessage(Store, now, other, "Assistant", LongText).err
               = "session size limit exceeded"

\* C19: the reads (GetMessages, GetFormattedMessages, GetMessagesAsLLMFormat,
\* which GetHistory calls) change nothing: no session is created, the valid set,
\* the messages, last_active and the LRU order stay as they were, so a session
\* that was just read is evicted and swept as if it had not been read.
C19_ReadsChangeNothing ==
    [][(storeOps' # storeOps /\ lastRead' # <<>>)
          => /\ sessions' = sessions
             /\ validSessions' = validSessions
             /\ sessionOrder' = sessionOrder
             /\ totalSessionsCreated' = totalSessionsCreated
             /\ CleanupIdle(Store, now + 1)' = CleanupIdle(Store, now + 1)
      ]_vars

\* Session "a" has just been read and is still the next one to be evicted.
C19_Witness ==
    /\ lastRead # <<>>
    /\ lastRead[1] = "a" /\ lastRead[2] > 0
    /\ sessionOrder = <<"a", "b">>
    /\ OverflowingInsert("c")
    /\ DOMAIN AppendMessage(Store, now, "c", "User", <<104>>).st.sessions = {"b", "c"}

\* ------------------------------------------------------------------
\* Statements about removed sessions and message_index (under Spec, SpecIndex)
\* ------------------------------------------------------------------
\* Ids the server minted that have since been evicted or swept.
DeadIds == minted \ validSessions

C20_IndexNeverChangesOutcome ==
    [][\A c \in Calls :
          (calls[c].pc = "valid" /\ calls'[c].pc # "valid")
             => /\ calls'[c].pc = "counted"
                /\ \A messageIndex \in MessageIndexes :
                      calls'[c] = AfterIndexCheck(calls[c],
                                      Len(GetMessages(Store, calls[c].sessionId)),
                                      messageIndex)
                /\ calls'[c].currentCount = Len(GetMessages(Store, calls[c].sessionId))
                /\ <<sessions, validSessions, sessionOrder>>'
                       = <<sessions, validSessions, sessionOrder>>
      ]_vars

\* A Chat sent with index 10 on a session holding 2 messages has completed and
\* reports 4.
C20_Witness ==
    /\ calls["c1"].pc = "ok"
    /\ reqIndex = 10
    /\ calls["c1"].currentCount = 2
    /\ calls["c1"].messageCount = 4
    /\ Len(GetMessages(Store, calls["c1"].sessionId)) = 4

\* ------------------------------------------------------------------
\* Statements about the upstream provider's retry loop (under SpecGen)
\* ------------------------------------------------------------------
TryFailed(res) == res.err # "nil" \/ res.text = <<>>
AllTriesFailed(n) ==
    /\ Len(gen.outcomes) = n
    /\ \A i \in 1..n : TryFailed(gen.outcomes[i])

\* At most three tries; a returned text is that of the first try that gave a
\* non-empty text, and that try is the last one made.
AtMostThreeTriesFirstTextWins ==
    /\ Len(gen.issued) <= 3
    /\ Len(gen.outcomes) <= Len(gen.issued)
    /\ \A i \in 1..Len(gen.outcomes) :
          ~TryFailed(gen.outcomes[i])
             => /\ i = Len(gen.outcomes) /\ i = Len(gen.issued)
                /\ gen.pc = "done" /\ gen.err = "nil"
                /\ gen.text = gen.outcomes[i].text
    /\ (gen.pc = "done" /\ gen.err = "nil")
          => /\ gen.outcomes # <<>>
             /\ ~TryFailed(gen.outcomes[Len(gen.outcomes)])

\* C21 as stated: at most three tries, the first non-empty text wins, and an
\* error is returned only after three failed tries or a cancellation.
C21_ErrorOnlyAfterThreeTriesOrCancel ==
    /\ AtMostThreeTriesFirstTextWins
    /\ (gen.pc = "done" /\ gen.err # "nil")
          => \/ AllTriesFailed(3)
             \/ gen.cancelled /\ gen.err = "Canceled"

\* C21, amended: at most three tries, the first non-empty text wins and ends
\* the call, two failures followed by a success give a success, and an error is
\* returned only after three failed tries, after a cancellation, or at once
\* (invalid-argument, no try made) when the call carries no messages.
C21_ErrorOnlyAfterThreeTriesCancelOrNoMessages ==
    /\ AtMostThreeTriesFirstTextWins
    /\ (gen.pc = "done" /\ gen.err # "nil")
          => \/ AllTriesFailed(3)
             \/ gen.cancelled /\ gen.err = "Canceled"
             \/ ~gen.hasMessages /\ gen.err = "InvalidArgument" /\ gen.issued = <<>>
    /\ (gen.hasMessages /\ gen.pc = "done" /\ ~gen.cancelled)
          => (gen.err = "nil" \/ AllTriesFailed(3))

\* Two tries failed with transient errors, the third returned "ok".
C21_Witness ==
    /\ gen.pc = "done" /\ gen.err = "nil" /\ gen.text = <<111, 107>>
    /\ Len(gen.outcomes) = 3
    /\ gen.outcomes[1].err = "transient" /\ gen.outcomes[2].err = "transient"

\* C22: once the caller's context is cancelled no upstream try is started, and
\* the call returns cancelled unless a try already in flight brings a text.
C22_NoTryAfterCancel ==
    /\ \A i \in 1..Len(gen.issued) : ~gen.issued[i]
    /\ (gen.pc = "done" /\ gen.cancelled /\ gen.hasMessages)
          => gen.err \in {"Canceled", "nil"}

\* C29: after three failed tries the status is deadline-exceeded when the last
\* try timed out and unavailable for every other last error.
C29_FinalStatusFromLastErrorAlone ==
    (gen.pc = "done" /\ AllTriesFailed(3) /\ ~gen.cancelled)
       => /\ gen.err \in {"DeadlineExceeded", "Canceled", "Unavailable"}
          /\ gen.err = IF gen.outcomes[3].timedOut THEN "DeadlineExceeded"
                       ELSE "Unavailable"

\* ------------------------------------------------------------------
\* Statements about the factory and the reply path (under SpecReply)
\* ------------------------------------------------------------------
\* C23 as stated: in production the factory never hands out the Echo provider,
\* whatever the model and whether or not the upstream provider can be built.
C23_NeverEchoInProduction ==
    (san.pc # "idle" /\ ~san.isDev) => san.provider # "Echo"

\* C23, amended: in production the factory hands out the upstream provider for
\* every requested model, Echo included, whenever the upstream provider can be
\* built; it hands out Echo in production only when building it failed.
C23_NeverEchoInProductionWhenUpstreamBuilds ==
    (san.pc # "idle" /\ ~san.isDev)
       => /\ san.geminiOK => san.provider = "Gemini"
          /\ san.provider = "Echo" => ~san.geminiOK

C23_Witness ==
    /\ san.pc = "provider" /\ san.model = "ECHO"
    /\ ~san.isDev /\ san.geminiOK
    /\ san.provider = "Gemini"

\* An escape sequence ESC [ digits-or-semicolons letter starts at position i.
AnsiAt(s, i) ==
    /\ i + 1 <= Len(s) /\ s[i] = 27 /\ s[i + 1] = 91
    /\ ParamEnd(s, i + 2) <= Len(s)
    /\ IsLetter(s[ParamEnd(s, i + 2)])
IsControl(r) ==
    \/ r < 32 /\ r \notin {9, 10, 13}
    \/ r = 127
    \/ r >= 128 /\ r <= 159

\* C24: the reply of a successful Chat holds no ANSI escape sequence and no C0
\* or C1 control character other than newline, tab and carriage return.
C24_ReplyHasNoControlCharacters ==
    san.pc \in {"sanitized", "again"}
       => \A i \in 1..Len(san.out) :
             ~AnsiAt(san.out, i) /\ ~IsControl(san.out[i])

\* C25: the sanitiser is idempotent.
C25_SanitiseIdempotent ==
    san.pc = "again" => san.again = san.out

\* Removing the inner escape sequence of ESC ESC [ m [ m leaves ESC [ m, which
\* the control-character pass then breaks up.
C25_Witness ==
    /\ san.pc = "again"
    /\ san.reply = <<27, 27, 91, 109, 91, 109>>
    /\ san.out = <<91, 109>>

\* ------------------------------------------------------------------
\* Statements about the response cap (under SpecCap)
\* ------------------------------------------------------------------
\* C26: a provider reply over the cap makes Chat fail with ResourceExhausted,
\* nothing is appended for it and no reply is returned; a reply of exactly the
\* cap passes; so no reply that is returned or stored comes from a text over
\* the cap.
C26_ReplyOverCapRejected ==
    [][/\ \A r \in upstreamReplies :
             validateResponse(r) = IF ByteLen(r) > MaxResponseSize
                                   THEN "ResourceExhausted" ELSE "nil"
       /\ \A c \in Calls :
             /\ (calls[c].pc = "userStored" /\ calls'[c].pc = "failed"
                     /\ calls'[c].llmErr = "")
                   => /\ calls'[c].code = "ResourceExhausted"
                      /\ calls'[c].reply = <<>> /\ calls'[c].messageCount = 0
                      /\ sessions' = sessions
             /\ (calls[c].pc = "userStored" /\ calls'[c].pc = "generated")
                   => \E provider \in {"Echo", "Gemini"} :
                        \E out \in ProviderOutcomes(provider,
                                     GetMessagesAsLLMFormat(Store, calls[c].sessionId)) :
                            /\ out.err = "nil"
                            /\ ByteLen(out.text) <= MaxResponseSize
                            /\ calls'[c].reply = sanitizeForTerminal(out.text)
       /\ \A id \in DOMAIN sessions' : \A i \in 1..Len(sessions'[id].Messages) :
             sessions'[id].Messages[i].Role = "Assistant"
                => ByteLen(sessions'[id].Messages[i].Text) <= MaxResponseSize
      ]_vars

\* A reply of exactly the cap was accepted and stored, and the next Chat on the
\* session has just failed on a reply one byte over it.
C26_Witness ==
    \E id \in DOMAIN sessions :
        /\ \E i \in 1..Len(sessions[id].Messages) :
              /\ sessions[id].Messages[i].Role = "Assistant"
              /\ sessions[id].Messages[i].Text = CapReply
        /\ calls["c1"].sessionId = id
        /\ calls["c1"].pc = "failed" /\ calls["c1"].code = "ResourceExhausted"
        /\ calls["c1"].llmErr = ""
        /\ calls["c1"].trace # NoEvent
        /\ calls["c1"].trace[Len(calls["c1"].trace)] = GenerateEvent
        /\ sessions[id].Messages[Len(sessions[id].Messages)].Role = "User"

\* What the claim says CanMakeCall answers for a key: no entry, an entry of
\* another day, or fewer calls than the limit.
QuotaOpen(apiKey) ==
    \/ apiKey \notin DOMAIN usage
    \/ usage[apiKey].date # day
    \/ usage[apiKey].calls < DailyCallLimit

\* C27: CanMakeCall answers true exactly when the key has no entry, an entry
\* of another day, or fewer than DAILY_CALL_LIMIT calls today, and changes
\* nothing; RecordCall sets the key's entry to {today, 1} in the first two
\* cases and adds one to its calls otherwise; no other key's entry changes.
C27_QuotaPerKeyAndDay ==
    [][ /\ \A k \in DOMAIN ConfiguredKeys : CanMakeCall(usage, day, k) = QuotaOpen(k)
        /\ \A r \in Reqs :
              /\ ( reqs[r].pc = "authed" /\ reqs'[r].pc # "authed" ) =>
                    /\ usage' = usage
                    /\ (reqs'[r].pc = "admitted") = QuotaOpen(reqs[r].apiKey)
                    /\ (reqs'[r].pc = "rejected") = ~QuotaOpen(reqs[r].apiKey)
              /\ ( reqs[r].pc = "admitted" /\ reqs'[r].pc = "rate" ) =>
                    LET k == reqs[r].apiKey
                    IN  /\ DOMAIN usage' = DOMAIN usage \cup {k}
                        /\ usage'[k] =
                              IF k \notin DOMAIN usage \/ usage[k].date # day
                              THEN [date |-> day, calls |-> 1]
                              ELSE [date |-> day, calls |-> usage[k].calls + 1]
                        /\ \A other \in DOMAIN usage \ {k} :
                              usage'[other] = usage[other]
      ]_vars

\* A key that reached the limit yesterday has been admitted again today and
\* its count restarted at 1, while another key's entry of yesterday stands.
C27_Witness ==
    /\ day = 1
    /\ "ku" \in DOMAIN usage /\ usage["ku"] = [date |-> 1, calls |-> 1]
    /\ passed["ku"][0] >= DailyCallLimit
    /\ passed["ku"][1] = 1
    /\ "ka" \in DOMAIN usage /\ usage["ka"].date = 0

\* The tokens a key's bucket holds: a key never seen has a full bucket.
TokensOf(ls, key) == IF key \in DOMAIN ls THEN ls[key] ELSE RateBurst

\* C28: Allow(key) answers true exactly when the key's bucket holds a token and
\* then takes exactly one; a bucket never holds more than BURST tokens nor
\* fewer than 0; a fresh key starts with BURST tokens, so with no time elapsed
\* it is admitted BURST times and then refused; Allow on one key leaves every
\* other key's bucket as it was, in every interleaving of calls.
C28_TokenBucketPerKey ==
    /\ \A key \in DOMAIN limiters : limiters[key] >= 0 /\ limiters[key] <= RateBurst
    /\ \A key \in RateKeys :
          LET before == TokensOf(limiters, key)
              res == Allow(limiters, key)
          IN  /\ res.ok = (before >= 1)
              /\ DOMAIN res.limiters = DOMAIN limiters \cup {key}
              /\ res.limiters[key] = IF before >= 1 THEN before - 1 ELSE before
              /\ \A other \in DOMAIN limiters \ {key} :
                    res.limiters[other] = limiters[other]
    /\ rateClock = 0 =>
          \A key \in RateKeys :
              /\ TokensOf(limiters, key) = RateBurst - AdmitsWithin(key, 0, 0)
              /\ AdmitsWithin(key, 0, 0) <= RateBurst

\* With no time elapsed one key has been admitted BURST times and is refused
\* now, while the other key, admitted once, still holds the rest of its bucket.
C28_Witness ==
    /\ rateClock = 0
    /\ \E key \in RateKeys : \E other \in RateKeys \ {key} :
          /\ AdmitsWithin(key, 0, 0) = RateBurst
          /\ key \in DOMAIN limiters /\ limiters[key] = 0
          /\ ~Allow(limiters, key).ok
          /\ AdmitsWithin(other, 0, 0) = 1
          /\ other \in DOMAIN limiters /\ limiters[other] = RateBurst - 1

\* The sessions whose last activity is older than now - IDLE_TTL.
IdleSessions == {id \in DOMAIN sessions : sessions[id].LastActive < now - IdleTimeout}

\* The ids of an LRU list.
OrderIds(order) == {order[i] : i \in 1..Len(order)}

\* C30: a sweep removes exactly the sessions whose last_active is older than
\* now - IDLE_TTL, from the store, the LRU list and the valid set; every other
\* session keeps its messages, its last_active and its place relative to the
\* others in the LRU list, and no other id leaves the valid set. (In this
\* specification a step that changes the store without advancing the clock,
\* minting an id or counting a store operation is the sweep.)
C30_SweepRemovesExactlyIdle ==
    [][ ( now' = now /\ storeOps' = storeOps /\ minted' = minted ) =>
          /\ DOMAIN sessions' = DOMAIN sessions \ IdleSessions
          /\ \A id \in DOMAIN sessions \ IdleSessions :
                /\ sessions'[id].Messages = sessions[id].Messages
                /\ sessions'[id].LastActive = sessions[id].LastActive
          /\ validSessions' = validSessions \ IdleSessions
          /\ OrderIds(sessionOrder') = OrderIds(sessionOrder) \ IdleSessions
          /\ Len(sessionOrder') =
                Cardinality({i \in 1..Len(sessionOrder) : sessionOrder[i] \notin IdleSessions})
          /\ \A i, j \in 1..Len(sessionOrder') :
                i < j => \E p, q \in 1..Len(sessionOrder) :
                            /\ p < q
                            /\ sessionOrder[p] = sessionOrder'[i]
                            /\ sessionOrder[q] = sessionOrder'[j]
      ]_vars

\* At time 1 the sweep has removed the session last active at time 0 and left
\* the two last active at time 1, in the order they had, in the store, the LRU
\* list and the valid set.
C30_Witness ==
    /\ now = 1
    /\ maxSessions = SweepMaxSessions
    /\ \E first \in minted : \E second \in minted \ {first} :
        \E gone \in minted \ {first, second} :
          /\ DOMAIN sessions = {first, second}
          /\ sessions[first].LastActive = 1 /\ sessions[second].LastActive = 1
          /\ sessionOrder = <<first, second>>
          /\ {first, second} \subseteq validSessions
          /\ gone \notin validSessions

\* ------------------------------------------------------------------
\* Further statements about the session store
\* ------------------------------------------------------------------
\* s is an initial part of t.
IsPrefix(s, t) == Len(s) <= Len(t) /\ \A i \in 1..Len(s) : t[i] = s[i]

\* C31: while a session exists its messages only grow at the end: across every
\* step the old sequence (roles, texts and timestamps) is a prefix of the new
\* one, so the count never decreases, and last_active never decreases.
C31_MessagesAppendOnly ==
    [][ \A id \in (DOMAIN sessions) \cap (DOMAIN sessions') :
          /\ IsPrefix(sessions[id].Messages, sessions'[id].Messages)
          /\ Len(sessions'[id].Messages) >= Len(sessions[id].Messages)
          /\ sessions'[id].LastActive >= sessions[id].LastActive
      ]_vars

\* A session holds a message of time 0 followed by a different one of time 1
\* and was last active at time 1.
C31_Witness ==
    \E id \in DOMAIN sessions :
        /\ Len(sessions[id].Messages) = 2
        /\ sessions[id].Messages[1].Timestamp = 0
        /\ sessions[id].Messages[2].Timestamp = 1
        /\ sessions[id].Messages[1].Role # sessions[id].Messages[2].Role
        /\ sessions[id].LastActive = 1

\* All messages the goroutines have sent so far.
TotalSent ==
    Len(conc["g1"].sent) + Len(conc["g2"].sent) + Len(conc["g3"].sent)

\* Neither the message-count cap nor the size cap can have been reached: every
\* message sent takes two bytes of text, the role string and 24 bytes.
NoCapHit ==
    /\ TotalSent <= MaxMessagesPerSession
    /\ TotalSent * (2 + Len(RoleString("User")) + 24) <= MaxSessionSizeBytes

\* The places of text in the messages of the session.
PlacesOf(text) ==
    IF ConcSession \notin DOMAIN sessions THEN {}
    ELSE {i \in 1..Len(sessions[ConcSession].Messages) :
              sessions[ConcSession].Messages[i].Text = text}

\* C32: concurrent appends to one registered session lose no message: while no
\* cap is hit every append has returned success, the session holds each message
\* sent exactly once and nothing else, and each goroutine's own messages stand
\* in the order it sent them.
C32_ConcurrentAppendsLoseNothing ==
    ( NoCapHit /\ TotalSent > 0 ) =>
        /\ ConcSession \in DOMAIN sessions
        /\ Len(sessions[ConcSession].Messages) = TotalSent
        /\ \A g \in Threads :
              /\ \A i \in 1..Len(conc[g].errs) : conc[g].errs[i] = "nil"
              /\ \A j \in 1..Len(conc[g].sent) :
                    Cardinality(PlacesOf(conc[g].sent[j])) = 1
              /\ \A j, k \in 1..Len(conc[g].sent) :
                    j < k => \A p \in PlacesOf(conc[g].sent[j]) :
                             \A q \in PlacesOf(conc[g].sent[k]) : p < q

\* Three goroutines have appended four messages between them, interleaved:
\* first of g1, first of g2, second of g1, first of g3.
C32_Witness ==
    /\ NoCapHit
    /\ TotalSent = MaxMessagesPerSession
    /\ ConcSession \in DOMAIN sessions
    /\ [i \in 1..Len(sessions[ConcSession].Messages) |->
            sessions[ConcSession].Messages[i].Text]
         = <<TextOf("g1", 1), TextOf("g2", 1), TextOf("g1", 2), TextOf("g3", 1)>>

\* ------------------------------------------------------------------
\* Statements about the limiter's cleanup worker (under SpecSweeper)
\* ------------------------------------------------------------------
\* C33: when Stop() has returned the cleanup worker has exited and no cleanup
\* of the limiter map runs afterwards, and Stop() always returns.
C33_StopWaitsForSweeper ==
    /\ sweeper.stop = "returned" => sweeper.pc = "exited" /\ ~sweeper.sweptAfterStop
    /\ sweeper.stop # "panicked"

\* ------------------------------------------------------------------
\* Statements about rejected appends and the LRU list
\* ------------------------------------------------------------------
LimitErrors == {"session message limit exceeded", "session size limit exceeded"}

\* C34: an append rejected with a limit error leaves the store as it was: no
\* session is created, none is evicted, and the valid set and the LRU list
\* are unchanged, also when the first append to a registered id carries a
\* text that is too large by itself while the store is full.
C34_RejectedAppendChangesNothing ==
    [][ ( storeOps' # storeOps /\ lastRead' = <<>> ) =>
          \A sessionID \in minted \cup {ForgedId}, role \in StoreRoles, text \in OverTexts :
              LET res == AppendMessage(Store, now, sessionID, role, text)
              IN  ( /\ res.err \in LimitErrors
                    /\ sessions' = res.st.sessions
                    /\ validSessions' = res.st.validSessions
                    /\ sessionOrder' = res.st.sessionOrder )
                  => UNCHANGED <<sessions, validSessions, sessionOrder>>
      ]_vars

\* C35: the LRU list and the session map describe the same set: every stored
\* session id occurs exactly once in the list and the list holds no other id,
\* whatever the order of registers, appends (stored or rejected), evictions
\* and sweeps.
C35_OrderListsExactlyTheStore ==
    /\ OrderIds(sessionOrder) = DOMAIN sessions
    /\ Len(sessionOrder) = Cardinality(DOMAIN sessions)

\* Three ids were registered and one of them has left the store; of the two
\* sessions stored, listed in the order of their last successful append, the
\* least recently used one holds a message and the other, created by a
\* rejected first append, holds none.
C35_Witness ==
    /\ Cardinality(minted) = 3
    /\ Cardinality(validSessions) = 2
    /\ Len(sessionOrder) = 2
    /\ DOMAIN sessions = {sessionOrder[1], sessionOrder[2]}
    /\ sessions[sessionOrder[1]].Messages # <<>>
    /\ sessions[sessionOrder[2]].Messages = <<>>

\* C36: an id that was registered and has no session is eventually removed
\* from the valid set (by the sweep once the idle time has passed, or by
\* eviction) unless it gets a session, so the valid ids without a session do
\* not pile up. (Stated for ids that are valid at time 0: at time 1 the idle
\* time has passed for them, as it has for a session last active at time 0.)
C36_UnusedIdLeavesValidSet ==
    \A id \in StoreIds :
        (id \in validSessions /\ id \notin DOMAIN sessions /\ now = 0)
            ~> (id \notin validSessions \/ id \in DOMAIN sessions)

\* ------------------------------------------------------------------
\* Further statements about admission (under SpecAdm)
\* ------------------------------------------------------------------
\* The request has been through RecordCall.
Recorded(q) == \E i \in 1..Len(q.checks) : q.checks[i] = "quota-record"

\* C37: a request that passed the quota check and is rejected by the rate
\* limiter has been recorded before the rate limiter saw it, and neither the
\* rejection nor the return of the error takes the increment back: the
\* rate-limited request counts against the daily limit.
C37_RateLimitedRequestStaysCharged ==
    [][\A r \in Reqs :
          /\ ( /\ reqs[r].pc = "rate" /\ reqs'[r].pc = "rejected"
               /\ reqs[r].method # "Health" ) =>
                /\ Recorded(reqs[r])
                /\ reqs[r].ctxKey \in DOMAIN usage
                /\ usage[reqs[r].ctxKey].calls >= 1
                /\ usage' = usage
          /\ ( /\ reqs[r].pc = "rejected" /\ reqs'[r].pc = "idle"
               /\ reqs[r].reason = "rate limit exceeded" ) =>
                usage' = usage
      ]_vars

\* A Chat of key "ku" was turned away by the rate limiter and the key's
\* counter of the day shows it.
C37_Witness ==
    \E r \in Reqs :
        /\ reqs[r].pc = "rejected" /\ reqs[r].reason = "rate limit exceeded"
        /\ reqs[r].method = "Chat" /\ reqs[r].ctxKey = "ku"
        /\ Recorded(reqs[r])
        /\ DayCount(usage, "ku", day) = 1
        /\ passed["ku"][day] = 1

\* C38: a request rejected by the auth interceptor - at identity resolution, at
\* the role gate or at the quota check - changes no admission state: every
\* daily counter and every rate bucket is the same after the rejection, and
\* after the error has gone back, as before it, and no bucket is created.
C38_AuthRejectionChangesNothing ==
    [][\A r \in Reqs :
          /\ ( reqs[r].pc \in {"idle", "authed"} /\ reqs'[r].pc = "rejected" ) =>
                /\ usage' = usage
                /\ limiters' = limiters
          /\ ( /\ reqs[r].pc = "rejected" /\ reqs'[r].pc = "idle"
               /\ reqs[r].reason # "rate limit exceeded" ) =>
                /\ usage' = usage
                /\ limiters' = limiters
      ]_vars

\* A request of key "ku" was rejected at the quota check with the counter at
\* the limit, while a request of key "ka" that was rejected at identity
\* resolution or the role gate left no counter and no bucket behind.
C38_Witness ==
    \E r \in Reqs : \E q \in Reqs \ {r} :
        /\ reqs[r].pc = "rejected" /\ reqs[r].reason = "daily call limit exceeded"
        /\ reqs[r].apiKey = "ku"
        /\ usage["ku"] = [date |-> day, calls |-> DailyCallLimit]
        /\ reqs[q].pc = "rejected" /\ reqs[q].code \in {"Unauthenticated", "PermissionDenied"}
        /\ "ka" \notin DOMAIN usage
        /\ <<"api_key:", "ka">> \notin DOMAIN limiters

\* ------------------------------------------------------------------
\* Further statements about the retry loop and the reply (under SpecGen, Spec)
\* ------------------------------------------------------------------
\* C39: once the caller's deadline has passed, GenerateResponse starts no
\* upstream try and begins no backoff sleep: the loop ends at once.
C39_NoTryAfterDeadline ==
    /\ \A i \in 1..Len(gen.late) : ~gen.late[i]
    /\ ~gen.sleptLate

\* C40: for every successful Chat the reply in the response is the text of the
\* assistant message the call stored - the session's last message when the
\* call returns - and both are the sanitised upstream reply.
C40_ReplyIsStoredAssistantText ==
    \A c \in Calls :
        calls[c].pc = "ok" =>
            LET m == GetMessages(Store, calls[c].sessionId)
            IN  /\ Len(m) >= 1
                /\ m[Len(m)].Role = "Assistant"
                /\ m[Len(m)].Text = calls[c].reply
                /\ calls[c].reply = sanitizeForTerminal(calls[c].raw)

\* A successful Chat whose upstream reply carried an escape sequence and a NUL:
\* the response and the stored message both hold the text without them.
C40_Witness ==
    \E c \in Calls :
        /\ calls[c].pc = "ok"
        /\ calls[c].raw = <<97, 27, 91, 109, 98, 0>>
        /\ calls[c].reply = <<97, 98>>
        /\ calls[c].sessionId \in DOMAIN sessions
        /\ LET m == sessions[calls[c].sessionId].Messages
           IN  m[Len(m)].Text = <<97, 98>>
====
